---- MODULE Spec2Model ----
(***************************************************************************)
(* Worksheeter: the Builder's document tree (src/QuestionBoard.tsx), the   *)
(* block factory and duplication helper (src/helpers.ts) and the drop      *)
(* zones of the editor (EditorBlockWrapper, src/unnamed/part_004).         *)
(*                                                                         *)
(* A block is a record [id, type, qType, val, children].  `val` stands for *)
(* the editable content fields of the block (content, url, title, prompt,  *)
(* options, listItems ...): 0 is what createBlock puts there, any other    *)
(* value is an edit.  `children` is <<>> for every block that is no group. *)
(* List indices are the 0-based indices of the source.                     *)
(***************************************************************************)
EXTENDS Integers, Sequences, FiniteSets, TLC

\* ---- bounds of the model ----
MaxBlocks == 3      \* most blocks the document holds at once
DupPool == 9        \* ids available when a sample document is duplicated into

\* ---- absent values of the source ----
NoId == 0           \* undefined targetId / targetParentId / parentId
Undefined == -2     \* undefined targetIndex
NotFound == -1      \* findIndex's "no such element"

Ids == 1..MaxBlocks
\* Values of a block's content fields: 0 as created, 1 edited.
Vals == {0, 1}

\* The question variants tried, of the five of QuestionType.
QTypes == {"multiple-choice"}

BlockTypes == {"text", "divider", "embed", "group", "question"}

\* findBlock's null
NoBlock == [id |-> NoId, type |-> "null", qType |-> "none", val |-> 0, children |-> <<>>]

\* The palette buttons that carry a dragPayload (and call addBlock on click).
Palette ==
  {[type |-> t, qType |-> "none"] : t \in {"text", "group", "embed", "divider"}}
    \cup {[type |-> "question", qType |-> q] : q \in QTypes}

Max(a, b) == IF a > b THEN a ELSE b
Min(a, b) == IF a < b THEN a ELSE b

\* Array.prototype.findIndex on ids: 0-based index of the first block with that id, or -1.
FindIndexById(blocks, id) ==
  IF \E i \in 1..Len(blocks) : blocks[i].id = id
    THEN (CHOOSE i \in 1..Len(blocks) :
            /\ blocks[i].id = id
            /\ \A j \in 1..(i - 1) : blocks[j].id # id) - 1
    ELSE NotFound

\* arr.splice(i, 0, b) on a copy, for 0 <= i <= arr.length.
SpliceIn(arr, i, b) == SubSeq(arr, 1, i) \o <<b>> \o SubSeq(arr, i + 1, Len(arr))

\* helpers.ts createBlock, with the id generateId returned.
createBlock(type, qType, id) ==
  IF type = "question"
    THEN [id |-> id, type |-> "question", qType |-> qType, val |-> 0, children |-> <<>>]
    ELSE IF type = "text"
      THEN [id |-> id, type |-> "text", qType |-> "none", val |-> 0, children |-> <<>>]
    ELSE IF type = "group"
      THEN [id |-> id, type |-> "group", qType |-> "none", val |-> 0, children |-> <<>>]
    ELSE IF type = "embed"
      THEN [id |-> id, type |-> "embed", qType |-> "none", val |-> 0, children |-> <<>>]
    ELSE [id |-> id, type |-> "divider", qType |-> "none", val |-> 0, children |-> <<>>]

\* The ids of a list of blocks and of all their descendants.
RECURSIVE TreeIds(_)
TreeIds(blocks) ==
  UNION {{blocks[i].id} \cup TreeIds(blocks[i].children) : i \in 1..Len(blocks)}

\* The number of blocks in a list, descendants included.
RECURSIVE TreeSize(_)
TreeSize(blocks) ==
  IF blocks = <<>> THEN 0
  ELSE 1 + TreeSize(Head(blocks).children) + TreeSize(Tail(blocks))

\* Mutant of removeBlockRecursive: filters the root list only.
removeBlockTopLevelOnly(blocks, id) == SelectSeq(blocks, LAMBDA b : b.id # id)

\* QuestionBoard.tsx removeBlockRecursive: filter this level, then map into groups.
RECURSIVE removeBlockRecursive(_, _)
removeBlockRecursive(blocks, id) ==
  LET kept == SelectSeq(blocks, LAMBDA b : b.id # id)
  IN [i \in 1..Len(kept) |->
        IF kept[i].type = "group"
          THEN [kept[i] EXCEPT !.children = removeBlockRecursive(kept[i].children, id)]
          ELSE kept[i]]

\* QuestionBoard.tsx findBlock: first match in document order, or null.
RECURSIVE findBlock(_, _)
findBlock(blocks, id) ==
  IF blocks = <<>> THEN NoBlock
  ELSE LET b == Head(blocks)
       IN IF b.id = id THEN b
          ELSE LET found == IF b.type = "group" THEN findBlock(b.children, id) ELSE NoBlock
               IN IF found # NoBlock THEN found ELSE findBlock(Tail(blocks), id)

\* Mutant of insertBlockAt: the index is ignored, the block is pushed at the end.
RECURSIVE insertBlockAtEnd(_, _, _, _)
insertBlockAtEnd(blocks, parentId, index, block) ==
  IF parentId = NoId
    THEN Append(blocks, block)
    ELSE [i \in 1..Len(blocks) |->
            LET b == blocks[i]
            IN IF b.id = parentId /\ b.type = "group"
                 THEN [b EXCEPT !.children = Append(b.children, block)]
               ELSE IF b.type = "group"
                 THEN [b EXCEPT !.children = insertBlockAtEnd(b.children, parentId, index, block)]
               ELSE b]

\* QuestionBoard.tsx insertBlockAt.
RECURSIVE insertBlockAt(_, _, _, _)
insertBlockAt(blocks, parentId, index, block) ==
  IF parentId = NoId
    THEN SpliceIn(blocks, Max(0, Min(index, Len(blocks))), block)
    ELSE [i \in 1..Len(blocks) |->
            LET b == blocks[i]
            IN IF b.id = parentId /\ b.type = "group"
                 THEN [b EXCEPT !.children =
                         SpliceIn(b.children, Max(0, Min(index, Len(b.children))), block)]
               ELSE IF b.type = "group"
                 THEN [b EXCEPT !.children = insertBlockAt(b.children, parentId, index, block)]
               ELSE b]

\* Mutant of updateRecursive: replaces in the root list only.
updateTopLevelOnly(blocks, id, newData) ==
  [i \in 1..Len(blocks) |-> IF blocks[i].id = id THEN newData ELSE blocks[i]]

\* updateBlock's updateRecursive.
RECURSIVE updateRecursive(_, _, _)
updateRecursive(blocks, id, newData) ==
  [i \in 1..Len(blocks) |->
     LET b == blocks[i]
     IN IF b.id = id THEN newData
        ELSE IF b.type = "group"
          THEN [b EXCEPT !.children = updateRecursive(b.children, id, newData)]
        ELSE b]

\* Mutant of duplicateBlockHelper: a shallow copy, the children keep their ids.
duplicateShallow(block, gen) == [block EXCEPT !.id = gen[block.id]]

\* helpers.ts duplicateBlockHelper; gen[i] is what generateId returns when the
\* block whose id is i is copied.
RECURSIVE duplicateBlockHelper(_, _)
duplicateBlockHelper(block, gen) ==
  IF block.type = "group"
    THEN [block EXCEPT !.id = gen[block.id],
                       !.children = [i \in 1..Len(block.children) |->
                                       duplicateBlockHelper(block.children[i], gen)]]
    ELSE [block EXCEPT !.id = gen[block.id]]

\* Mutant of insertAfterRecursive: looks in the root list only and puts the copy
\* before the original.
insertBeforeTopLevel(blocks, id, newBlock) ==
  LET idx == FindIndexById(blocks, id)
  IN IF idx # NotFound THEN SpliceIn(blocks, idx, newBlock) ELSE blocks

\* duplicateBlock's insertAfterRecursive.
RECURSIVE insertAfterRecursive(_, _, _)
insertAfterRecursive(blocks, id, newBlock) ==
  LET idx == FindIndexById(blocks, id)
  IN IF idx # NotFound
       THEN SpliceIn(blocks, idx + 1, newBlock)
       ELSE [i \in 1..Len(blocks) |->
               IF blocks[i].type = "group"
                 THEN [blocks[i] EXCEPT !.children =
                         insertAfterRecursive(blocks[i].children, id, newBlock)]
                 ELSE blocks[i]]

\* handleDragDrop's findIndexInParent (targetId is captured from the handler).
RECURSIVE findIndexInParent(_, _, _)
findIndexInParent(blocks, pId, targetId) ==
  IF pId = NoId THEN FindIndexById(blocks, targetId)
  ELSE IF blocks = <<>> THEN NotFound
  ELSE LET b == Head(blocks)
       IN IF b.id = pId /\ b.type = "group"
            THEN FindIndexById(b.children, targetId)
          ELSE LET res == IF b.type = "group"
                            THEN findIndexInParent(b.children, pId, targetId)
                            ELSE NotFound
               IN IF res # NotFound THEN res
                  ELSE findIndexInParent(Tail(blocks), pId, targetId)

\* Mutant of handleDragDropBlocks: the source is not removed before the insert.
handleDragDropNoRemove(blocks, item, targetId, targetParentId, targetIndex, newId) ==
  LET isNew == item.type = "new-block"
      found == IF isNew THEN NoBlock ELSE findBlock(blocks, item.id)
  IN IF ~isNew /\ found = NoBlock THEN blocks
     ELSE
       LET movingBlock == IF isNew
                            THEN createBlock(item.payload.type, item.payload.qType, newId)
                            ELSE found
       IN IF movingBlock.type = "divider" /\ targetParentId # NoId THEN blocks
          ELSE
            LET idx == findIndexInParent(blocks, targetParentId, targetId)
                fromTarget == IF targetId # NoId /\ targetIndex = Undefined /\ idx # NotFound
                                THEN idx + 1
                                ELSE targetIndex
                finalIndex == IF fromTarget = Undefined THEN -1 ELSE fromTarget
            IN insertBlockAt(blocks, targetParentId, finalIndex, movingBlock)

\* Mutant of handleDragDropBlocks: no check that keeps page breaks out of groups.
handleDragDropNoDividerCheck(blocks, item, targetId, targetParentId, targetIndex, newId) ==
  LET isNew == item.type = "new-block"
      found == IF isNew THEN NoBlock ELSE findBlock(blocks, item.id)
  IN IF ~isNew /\ found = NoBlock THEN blocks
     ELSE
       LET movingBlock == IF isNew
                            THEN createBlock(item.payload.type, item.payload.qType, newId)
                            ELSE found
           currentBlocks == IF isNew THEN blocks ELSE removeBlockRecursive(blocks, item.id)
           idx == findIndexInParent(currentBlocks, targetParentId, targetId)
           fromTarget == IF targetId # NoId /\ targetIndex = Undefined /\ idx # NotFound
                           THEN idx + 1
                           ELSE targetIndex
           finalIndex == IF fromTarget = Undefined THEN -1 ELSE fromTarget
       IN insertBlockAt(currentBlocks, targetParentId, finalIndex, movingBlock)

\* Mutant of handleDragDropBlocks: a rejected page break returns the list it was
\* already removed from, not prev.
handleDragDropRejectAfterRemove(blocks, item, targetId, targetParentId, targetIndex, newId) ==
  LET isNew == item.type = "new-block"
      found == IF isNew THEN NoBlock ELSE findBlock(blocks, item.id)
  IN IF ~isNew /\ found = NoBlock THEN blocks
     ELSE
       LET movingBlock == IF isNew
                            THEN createBlock(item.payload.type, item.payload.qType, newId)
                            ELSE found
           currentBlocks == IF isNew THEN blocks ELSE removeBlockRecursive(blocks, item.id)
       IN IF movingBlock.type = "divider" /\ targetParentId # NoId THEN currentBlocks
          ELSE
            LET idx == findIndexInParent(currentBlocks, targetParentId, targetId)
                fromTarget == IF targetId # NoId /\ targetIndex = Undefined /\ idx # NotFound
                                THEN idx + 1
                                ELSE targetIndex
                finalIndex == IF fromTarget = Undefined THEN -1 ELSE fromTarget
            IN insertBlockAt(currentBlocks, targetParentId, finalIndex, movingBlock)

\* The setData updater of handleDragDrop: the block list it returns.  item is the
\* parsed dragData, newId what generateId returns if createBlock is called.
handleDragDropBlocks(blocks, item, targetId, targetParentId, targetIndex, newId) ==
  LET isNew == item.type = "new-block"
      found == IF isNew THEN NoBlock ELSE findBlock(blocks, item.id)
  IN IF isNew /\ item.payload.type = "none" THEN blocks
     ELSE IF ~isNew /\ found = NoBlock THEN blocks
     ELSE
       LET movingBlock == IF isNew
                            THEN createBlock(item.payload.type, item.payload.qType, newId)
                            ELSE found
           currentBlocks == IF isNew THEN blocks ELSE removeBlockRecursive(blocks, item.id)
       IN IF movingBlock.type = "divider" /\ targetParentId # NoId THEN blocks
          ELSE
            LET idx == findIndexInParent(currentBlocks, targetParentId, targetId)
                fromTarget == IF targetId # NoId /\ targetIndex = Undefined /\ idx # NotFound
                                THEN idx + 1
                                ELSE targetIndex
                finalIndex == IF fromTarget = Undefined THEN -1 ELSE fromTarget
            IN insertBlockAt(currentBlocks, targetParentId, finalIndex, movingBlock)

\* The segments memo of the Builder.
RECURSIVE SegLoop(_, _, _)
SegLoop(blocks, segs, currentSegment) ==
  IF blocks = <<>> THEN Append(segs, currentSegment)
  ELSE IF Head(blocks).type = "divider"
    THEN SegLoop(Tail(blocks), Append(Append(segs, currentSegment), <<Head(blocks)>>), <<>>)
    ELSE SegLoop(Tail(blocks), segs, Append(currentSegment, Head(blocks)))

\* Mutant of segments: empty runs are not pushed.
segmentsNoEmptyRuns(blocks) == SelectSeq(SegLoop(blocks, <<>>, <<>>), LAMBDA seg : seg # <<>>)

segments(blocks) == SegLoop(blocks, <<>>, <<>>)

\* ---- JavaScript values, as JSON.stringify and JSON.parse see them ----
\* A string is the sequence of its UTF-16 code units; an object is the sequence
\* of its members in insertion order.
\* A value is [k, s, n, a]: its kind, the code units of a string, the number (1
\* for true, 0 for false), and the items of an array or the members of an object.
JStr(s) == [k |-> "str", s |-> s, n |-> 0, a |-> <<>>]
JNum(n) == [k |-> "num", s |-> <<>>, n |-> n, a |-> <<>>]
JBool(b) == [k |-> "bool", s |-> <<>>, n |-> IF b THEN 1 ELSE 0, a |-> <<>>]
JNull == [k |-> "null", s |-> <<>>, n |-> 0, a |-> <<>>]
JUndefined == [k |-> "undefined", s |-> <<>>, n |-> 0, a |-> <<>>]
JArr(items) == [k |-> "arr", s |-> <<>>, n |-> 0, a |-> items]
JObj(members) == [k |-> "obj", s |-> <<>>, n |-> 0, a |-> members]
Member(key, v) == [key |-> key, v |-> v]

\* The outcome of a call that threw.
Thrown == [k |-> "thrown", s |-> <<>>, n |-> 0, a |-> <<>>]

\* `if (v)`: false for null, undefined, 0, "" and false.
Truthy(v) ==
  CASE v.k \in {"null", "undefined", "thrown"} -> FALSE
    [] v.k \in {"num", "bool"} -> v.n # 0
    [] v.k = "str" -> v.s # <<>>
    [] OTHER -> TRUE

\* v[key]: the member's value, undefined when there is none (strings, numbers and
\* booleans have no own member of these names); reading a member of null throws.
GetMember(v, key) ==
  IF v.k \in {"null", "undefined"} THEN Thrown
  ELSE IF v.k = "obj" /\ \E i \in 1..Len(v.a) : v.a[i].key = key
    THEN v.a[CHOOSE i \in 1..Len(v.a) : v.a[i].key = key].v
    ELSE JUndefined

\* Concatenation of the texts in parts, sep between them.
RECURSIVE JoinWith(_, _)
JoinWith(parts, sep) ==
  IF parts = <<>> THEN <<>>
  ELSE IF Len(parts) = 1 THEN parts[1]
  ELSE parts[1] \o sep \o JoinWith(Tail(parts), sep)

\* The decimal digits of a non-negative integer.
RECURSIVE Digits(_)
Digits(n) == IF n < 10 THEN <<48 + n>> ELSE Digits(n \div 10) \o <<48 + (n % 10)>>

\* JSON.stringify's Quote: '"' and '\' are escaped, a line feed becomes \n, every
\* other code unit used here is copied.
RECURSIVE EscapeChars(_)
EscapeChars(s) ==
  IF s = <<>> THEN <<>>
  ELSE (CASE Head(s) = 34 -> <<92, 34>>
          [] Head(s) = 92 -> <<92, 92>>
          [] Head(s) = 10 -> <<92, 110>>
          [] OTHER -> <<Head(s)>>) \o EscapeChars(Tail(s))

Quote(s) == <<34>> \o EscapeChars(s) \o <<34>>

\* Mutant of JSONstringify's Quote: nothing is escaped.
QuoteRaw(s) == <<34>> \o s \o <<34>>

\* JSON.stringify(v) for a defined v: members whose value is undefined are left
\* out of objects, undefined array items are written as null.
RECURSIVE JSONstringify(_)
JSONstringify(v) ==
  CASE v.k = "str" -> Quote(v.s)
    [] v.k = "num" -> Digits(v.n)
    [] v.k = "bool" -> IF v.n = 1 THEN <<116, 114, 117, 101>> ELSE <<102, 97, 108, 115, 101>>
    [] v.k = "arr" ->
         <<91>> \o JoinWith([i \in 1..Len(v.a) |->
                               IF v.a[i].k = "undefined" THEN <<110, 117, 108, 108>>
                               ELSE JSONstringify(v.a[i])], <<44>>) \o <<93>>
    [] v.k = "obj" ->
         LET kept == SelectSeq(v.a, LAMBDA m : m.v.k # "undefined")
         IN <<123>> \o JoinWith([i \in 1..Len(kept) |->
                                   Quote(kept[i].key) \o <<58>> \o JSONstringify(kept[i].v)],
                                <<44>>) \o <<125>>
    [] OTHER -> <<110, 117, 108, 108>>

\* ---- JSON.parse, by recursive descent over the code units of the text ----
\* A parse result: the value read and the index after it, or a failure.  The
\* grammar covers what the texts tried hold: strings with the escapes \" \\ \/
\* \n \t \r \b \f, non-negative integers, true, false, null, arrays and objects.
ParseOk(v, i) == [ok |-> TRUE, v |-> v, i |-> i]
ParseFail == [ok |-> FALSE, v |-> Thrown, i |-> 0]

IsWs(c) == c \in {32, 10, 13, 9}

RECURSIVE SkipWs(_, _)
SkipWs(t, i) == IF i <= Len(t) /\ IsWs(t[i]) THEN SkipWs(t, i + 1) ELSE i

Lit(t, i, word) ==
  i + Len(word) - 1 <= Len(t) /\ SubSeq(t, i, i + Len(word) - 1) = word

\* The characters of a string, from the index after its opening quote.
RECURSIVE ParseChars(_, _, _)
ParseChars(t, i, acc) ==
  IF i > Len(t) THEN ParseFail
  ELSE IF t[i] = 34 THEN ParseOk(JStr(acc), i + 1)
  ELSE IF t[i] = 92
    THEN IF i + 1 > Len(t) THEN ParseFail
         ELSE IF t[i + 1] \in {34, 92, 47} THEN ParseChars(t, i + 2, Append(acc, t[i + 1]))
         ELSE IF t[i + 1] = 110 THEN ParseChars(t, i + 2, Append(acc, 10))
         ELSE IF t[i + 1] = 116 THEN ParseChars(t, i + 2, Append(acc, 9))
         ELSE IF t[i + 1] = 114 THEN ParseChars(t, i + 2, Append(acc, 13))
         ELSE IF t[i + 1] = 98 THEN ParseChars(t, i + 2, Append(acc, 8))
         ELSE IF t[i + 1] = 102 THEN ParseChars(t, i + 2, Append(acc, 12))
         ELSE ParseFail
  ELSE IF t[i] < 32 THEN ParseFail
  ELSE ParseChars(t, i + 1, Append(acc, t[i]))

RECURSIVE ParseDigits(_, _, _)
ParseDigits(t, i, n) ==
  IF i <= Len(t) /\ t[i] \in 48..57
    THEN ParseDigits(t, i + 1, 10 * n + (t[i] - 48))
    ELSE ParseOk(JNum(n), i)

\* obj[key] = v while parsing: a repeated key keeps its place and takes the last value.
PutMember(members, key, v) ==
  IF \E i \in 1..Len(members) : members[i].key = key
    THEN [i \in 1..Len(members) |->
            IF members[i].key = key THEN Member(key, v) ELSE members[i]]
    ELSE Append(members, Member(key, v))

RECURSIVE ParseValue(_, _)
RECURSIVE ParseItems(_, _, _)
RECURSIVE ParseMembers(_, _, _)
ParseValue(t, i0) ==
  LET i == SkipWs(t, i0)
  IN IF i > Len(t) THEN ParseFail
     ELSE IF t[i] = 34 THEN ParseChars(t, i + 1, <<>>)
     ELSE IF t[i] = 48 THEN ParseOk(JNum(0), i + 1)
     ELSE IF t[i] \in 49..57 THEN ParseDigits(t, i, 0)
     ELSE IF Lit(t, i, <<110, 117, 108, 108>>) THEN ParseOk(JNull, i + 4)
     ELSE IF Lit(t, i, <<116, 114, 117, 101>>) THEN ParseOk(JBool(TRUE), i + 4)
     ELSE IF Lit(t, i, <<102, 97, 108, 115, 101>>) THEN ParseOk(JBool(FALSE), i + 5)
     ELSE IF t[i] = 91
       THEN LET j == SkipWs(t, i + 1)
            IN IF j <= Len(t) /\ t[j] = 93 THEN ParseOk(JArr(<<>>), j + 1)
               ELSE ParseItems(t, i + 1, <<>>)
     ELSE IF t[i] = 123
       THEN LET j == SkipWs(t, i + 1)
            IN IF j <= Len(t) /\ t[j] = 125 THEN ParseOk(JObj(<<>>), j + 1)
               ELSE ParseMembers(t, i + 1, <<>>)
     ELSE ParseFail

\* The items of an array after '[' or ',': a value, then ',' or ']'.
ParseItems(t, i, acc) ==
  LET r == ParseValue(t, i)
  IN IF ~r.ok THEN ParseFail
     ELSE LET j == SkipWs(t, r.i)
          IN IF j > Len(t) THEN ParseFail
             ELSE IF t[j] = 44 THEN ParseItems(t, j + 1, Append(acc, r.v))
             ELSE IF t[j] = 93 THEN ParseOk(JArr(Append(acc, r.v)), j + 1)
             ELSE ParseFail

\* The members of an object after '{' or ',': "key", ':', a value, then ',' or '}'.
ParseMembers(t, i0, acc) ==
  LET i == SkipWs(t, i0)
  IN IF i > Len(t) \/ t[i] # 34 THEN ParseFail
     ELSE LET key == ParseChars(t, i + 1, <<>>)
          IN IF ~key.ok THEN ParseFail
             ELSE LET c == SkipWs(t, key.i)
                  IN IF c > Len(t) \/ t[c] # 58 THEN ParseFail
                     ELSE LET r == ParseValue(t, c + 1)
                          IN IF ~r.ok THEN ParseFail
                             ELSE LET j == SkipWs(t, r.i)
                                      members == PutMember(acc, key.v.s, r.v)
                                  IN IF j > Len(t) THEN ParseFail
                                     ELSE IF t[j] = 44 THEN ParseMembers(t, j + 1, members)
                                     ELSE IF t[j] = 125 THEN ParseOk(JObj(members), j + 1)
                                     ELSE ParseFail

\* JSON.parse(text): the value, or Thrown for a SyntaxError.
JSONparse(t) ==
  LET r == ParseValue(t, 1)
  IN IF r.ok /\ SkipWs(t, r.i) > Len(t) THEN r.v ELSE Thrown

\* ---- base64 (btoa / atob) ----
\* A character of a base64 text or of a location hash is written as its base64
\* digit value 0..63 when it is one ('A'..'Z' 0..25, 'a'..'z' 26..51, '0'..'9'
\* 52..61, '+' 62, '/' 63), as PadChar for '=', and as a larger number otherwise.
PadChar == 64
HashChar == 100     \* '#'
DashChar == 101     \* '-'

\* The result of a call that returns a text, or throws.
TextOk(s) == [ok |-> TRUE, s |-> s]
TextThrown == [ok |-> FALSE, s |-> <<>>]

\* The base64 digits of a byte sequence: each group of three bytes gives four
\* digits; a last group of one or two bytes is filled with zero bits and '='.
EncodeGroups(b) ==
  [p \in 1..(4 * ((Len(b) + 2) \div 3)) |->
     LET g == 3 * ((p - 1) \div 4)
         b1 == b[g + 1]
         b2 == IF g + 2 <= Len(b) THEN b[g + 2] ELSE 0
         b3 == IF g + 3 <= Len(b) THEN b[g + 3] ELSE 0
     IN CASE (p - 1) % 4 = 0 -> b1 \div 4
          [] (p - 1) % 4 = 1 -> (b1 % 4) * 16 + (b2 \div 16)
          [] (p - 1) % 4 = 2 -> IF g + 2 <= Len(b) THEN (b2 % 16) * 4 + (b3 \div 64) ELSE PadChar
          [] OTHER -> IF g + 3 <= Len(b) THEN b3 % 64 ELSE PadChar]

\* btoa(text): throws when a code unit is outside Latin-1.
btoa(text) ==
  IF \E i \in 1..Len(text) : text[i] > 255 THEN TextThrown
  ELSE TextOk(EncodeGroups(text))

\* The bytes of a sequence of base64 digits whose length is not 1 modulo 4:
\* three bytes per four digits, one or two bytes for a last group of two or
\* three digits (the bits left over are dropped).
DecodeGroups(s) ==
  [q \in 1..(3 * (Len(s) \div 4) + (IF Len(s) % 4 = 0 THEN 0 ELSE (Len(s) % 4) - 1)) |->
     LET g == 4 * ((q - 1) \div 3)
         s3 == IF g + 3 <= Len(s) THEN s[g + 3] ELSE 0
         s4 == IF g + 4 <= Len(s) THEN s[g + 4] ELSE 0
     IN CASE (q - 1) % 3 = 0 -> s[g + 1] * 4 + (s[g + 2] \div 16)
          [] (q - 1) % 3 = 1 -> (s[g + 2] % 16) * 16 + (s3 \div 4)
          [] OTHER -> (s3 % 4) * 64 + s4]

\* atob(text), the forgiving-base64 decode: up to two trailing '=' are dropped
\* from a text whose length is a multiple of 4; a remaining length of 1 modulo 4
\* or a character that is no base64 digit throws.
atob(text) ==
  LET n == Len(text)
      s == IF n > 0 /\ n % 4 = 0 /\ text[n] = PadChar
             THEN IF text[n - 1] = PadChar THEN SubSeq(text, 1, n - 2)
                  ELSE SubSeq(text, 1, n - 1)
             ELSE text
  IN IF Len(s) % 4 = 1 \/ \E i \in 1..Len(s) : s[i] \notin 0..63 THEN TextThrown
     ELSE TextOk(DecodeGroups(s))

\* ---- helpers.ts encodeState / decodeState ----
\* "#data="
DataPrefix == <<HashChar, 29, 26, 45, 26, PadChar>>

startsWith(s, prefix) == Len(s) >= Len(prefix) /\ SubSeq(s, 1, Len(prefix)) = prefix

\* s.replace(pattern, ""): the first occurrence of pattern is removed.
RemoveFirst(s, pattern) ==
  LET at == {i \in 1..(Len(s) - Len(pattern) + 1) : SubSeq(s, i, i + Len(pattern) - 1) = pattern}
  IN IF at = {} THEN s
     ELSE LET i == CHOOSE j \in at : \A k \in at : j <= k
          IN SubSeq(s, 1, i - 1) \o SubSeq(s, i + Len(pattern), Len(s))

\* Mutant of encodeState: the JSON text is written with unescaped strings.
RECURSIVE stringifyRaw(_)
stringifyRaw(v) ==
  CASE v.k = "str" -> QuoteRaw(v.s)
    [] v.k = "arr" ->
         <<91>> \o JoinWith([i \in 1..Len(v.a) |-> stringifyRaw(v.a[i])], <<44>>) \o <<93>>
    [] v.k = "obj" ->
         LET kept == SelectSeq(v.a, LAMBDA m : m.v.k # "undefined")
         IN <<123>> \o JoinWith([i \in 1..Len(kept) |->
                                   QuoteRaw(kept[i].key) \o <<58>> \o stringifyRaw(kept[i].v)],
                                <<44>>) \o <<125>>
    [] OTHER -> JSONstringify(v)

encodeStateRaw(data) ==
  LET b == btoa(stringifyRaw(data)) IN IF b.ok THEN b.s ELSE <<>>

\* Mutant of encodeState: a failure gives the encoding of "{}", not "".
encodeStateEmptyObject(data) ==
  LET b == btoa(JSONstringify(data)) IN IF b.ok THEN b.s ELSE EncodeGroups(<<123, 125>>)

\* encodeState: btoa(JSON.stringify(data)), "" when btoa throws.
encodeState(data) ==
  LET b == btoa(JSONstringify(data)) IN IF b.ok THEN b.s ELSE <<>>

\* Mutant of decodeState: a failure gives the empty object, not null.
decodeStateNoCatch(hash) ==
  LET json == atob(RemoveFirst(hash, DataPrefix))
  IN IF ~json.ok THEN JObj(<<>>)
     ELSE LET v == JSONparse(json.s) IN IF v.k = "thrown" THEN JObj(<<>>) ELSE v

\* decodeState: JSON.parse(atob(hash.replace("#data=", ""))), null when either throws.
decodeState(hash) ==
  LET json == atob(RemoveFirst(hash, DataPrefix))
  IN IF ~json.ok THEN JNull
     ELSE LET v == JSONparse(json.s) IN IF v.k = "thrown" THEN JNull ELSE v


\* ---- drop-zone geometry of EditorBlockWrapper ----
TopBand == 20       \* e.clientY < rect.top + 20
BottomBand == 20    \* e.clientY > rect.bottom - 20
InsideBand == 80    \* e.clientY < rect.top + 80

\* Pointer ordinates and wrapper heights tried (the wrapper's top edge is at 0).
PointerYs == {5, 15, 20, 50, 80, 90, 100, 110}
Heights == {30, 120}

\* Mutant of WrapperPos: the depth of the wrapper is not looked at.
WrapperPosAnyDepth(y, top, bottom, type, depth) ==
  LET isTop == y < top + TopBand
      isBottom == y > bottom - BottomBand
  IN IF type = "group" /\ ~isTop /\ ~isBottom /\ y < top + InsideBand
       THEN "inside"
       ELSE IF isTop THEN "top" ELSE "bottom"

\* The position EditorBlockWrapper's onDragOver and onDrop derive from the pointer.
WrapperPos(y, top, bottom, type, depth) ==
  LET isTop == y < top + TopBand
      isBottom == y > bottom - BottomBand
  IN IF type = "group" /\ ~isTop /\ ~isBottom /\ y < top + InsideBand /\ depth < 1
       THEN "inside"
       ELSE IF isTop THEN "top" ELSE "bottom"

\* ---- state ----
VARIABLES
  data,         \* Builder's data: [title, description, blocks, design]
  isDragging,   \* Builder's isDragging
  draggedType,  \* Builder's draggedType, "null" when null
  dragTarget,   \* Builder's dragTarget, NoTarget when null
  dragData,     \* the "dragData" item of the drag in progress, NoItem when none
  phase,        \* the native gesture: "idle", "dragging", "dropped"
  last,         \* the handler that ran last, with its arguments
  arg,          \* the argument of the helper function applied last, NoBlock when none
  ret,          \* what that helper returned, NoBlock when none
  pool,         \* the ids generateId draws from in this run
  mode,         \* Builder's mode: "edit" or "preview"
  answer        \* the Answer page's state: [data, error]

vars == <<data, isDragging, draggedType, dragTarget, dragData, phase, last, arg, ret, pool,
          mode, answer>>

NoTarget == [id |-> NoId, pos |-> "null"]
NoPayload == [type |-> "none", qType |-> "none"]
NoItem == [type |-> "none", id |-> NoId, payload |-> NoPayload]

\* What `last` records: the handler that ran, the block prop (or dragged block) it
\* was given, the dragData item, and the parentId / index it was called with (for
\* handleDragDrop: targetId, targetParentId, targetIndex).
Op(op, block, item, targetId, parentId, index) ==
  [op |-> op, block |-> block, item |-> item, targetId |-> targetId,
   parentId |-> parentId, index |-> index]

NoOp == Op("init", NoBlock, NoItem, NoId, NoId, Undefined)

\* useState initial values of the Answer page: no document, no answers, no
\* error; `reading` holds the texts of the files whose FileReader has not
\* called onload yet.
NoAnswer == [data |-> JNull, error |-> "null", answers |-> {}, reading |-> {}]

\* useState initial values of Builder.
Init ==
  /\ data = [title |-> "Untitled Worksheet",
             description |-> "Fill out the questions below.",
             blocks |-> <<>>,
             design |-> [accentColor |-> "#6366f1", font |-> "sans"]]
  /\ isDragging = FALSE
  /\ draggedType = "null"
  /\ dragTarget = NoTarget
  /\ dragData = NoItem
  /\ phase = "idle"
  /\ last = NoOp
  /\ arg = NoBlock
  /\ ret = NoBlock
  /\ pool = Ids
  /\ mode = "edit"
  /\ answer = NoAnswer

\* ---- what the editor renders ----
\* The EditorBlockWrapper instances below a group rendered at `depth`.
RECURSIVE ChildWrappers(_, _)
ChildWrappers(group, depth) ==
  UNION {{[block |-> group.children[i], index |-> i - 1,
           parentId |-> group.id, depth |-> depth + 1]}
           \cup (IF group.children[i].type = "group"
                   THEN ChildWrappers(group.children[i], depth + 1)
                   ELSE {})
         : i \in 1..Len(group.children)}

\* Every EditorBlockWrapper on screen: the root blocks that are no page break
\* (index = data.blocks.indexOf(block), depth 0) and, recursively, group children.
Wrappers(blocks) ==
  UNION {{[block |-> blocks[i], index |-> i - 1, parentId |-> NoId, depth |-> 0]}
           \cup (IF blocks[i].type = "group" THEN ChildWrappers(blocks[i], 0) ELSE {})
         : i \in {j \in 1..Len(blocks) : blocks[j].type # "divider"}}

\* The root page breaks, rendered as divider segments.
PageBreaks(blocks) == {i \in 1..Len(blocks) : blocks[i].type = "divider"}

\* segments.slice(0, n).reduce((acc, s) => acc + s.length, 0)
RECURSIVE SegLenSum(_, _)
SegLenSum(segs, n) == IF n = 0 THEN 0 ELSE SegLenSum(segs, n - 1) + Len(segs[n])

\* The page containers rendered: segment indices (0-based) that are no divider
\* segment and not an empty segment after the first.
IsDividerSegment(seg) == Len(seg) = 1 /\ seg[1].type = "divider"
Pages(blocks) ==
  LET segs == segments(blocks)
  IN {k \in 0..(Len(segs) - 1) :
        /\ ~IsDividerSegment(segs[k + 1])
        /\ ~(Len(segs[k + 1]) = 0 /\ k # 0)}

\* ---- the numbering of the preview and of the Answer page ----
\* The entries of toRoman's table, in the order of its keys.
RomanTable ==
  << [v |-> 1000, s |-> <<109>>], [v |-> 900, s |-> <<99, 109>>], [v |-> 500, s |-> <<100>>],
     [v |-> 400, s |-> <<99, 100>>], [v |-> 100, s |-> <<99>>], [v |-> 90, s |-> <<120, 99>>],
     [v |-> 50, s |-> <<108>>], [v |-> 40, s |-> <<120, 108>>], [v |-> 10, s |-> <<120>>],
     [v |-> 9, s |-> <<105, 120>>], [v |-> 5, s |-> <<118>>], [v |-> 4, s |-> <<105, 118>>],
     [v |-> 1, s |-> <<105>>] >>

\* String.prototype.repeat
RECURSIVE Repeat(_, _)
Repeat(s, q) == IF q = 0 THEN <<>> ELSE s \o Repeat(s, q - 1)

RECURSIVE RomanLoop(_, _, _)
RomanLoop(num, i, str) ==
  IF i > Len(RomanTable) THEN str
  ELSE LET q == num \div RomanTable[i].v
       IN RomanLoop(num - q * RomanTable[i].v, i + 1, str \o Repeat(RomanTable[i].s, q))

\* Mutant of toRoman: no subtractive pairs (4 is "iiii").
toRomanAdditive(num) ==
  Repeat(<<108>>, num \div 50) \o Repeat(<<120>>, (num % 50) \div 10)
    \o Repeat(<<118>>, (num % 10) \div 5) \o Repeat(<<105>>, num % 5)

toRoman(num) == RomanLoop(num, 1, <<>>)

\* The label of numbering slot `index` at `depth`, as code units: "1.", "a.", "i.".
getNumbering(depth, index) ==
  IF depth = 0 THEN Digits(index + 1) \o <<46>>
  ELSE IF depth = 1 THEN <<97 + index, 46>>
  ELSE IF depth >= 2 THEN toRoman(index + 1) \o <<46>>
  ELSE <<>>

\* Answer's getNumbering, over Answer's toRoman (the same table and loop).
getNumberingAnswer(depth, index) ==
  IF depth = 0 THEN Digits(index + 1) \o <<46>>
  ELSE IF depth = 1 THEN <<97 + index, 46>>
  ELSE IF depth >= 2 THEN toRoman(index + 1) \o <<46>>
  ELSE <<>>

\* b.type === 'question' || b.type === 'group'
IsNumbered(b) == b.type = "question" \/ b.type = "group"

\* Mutant of previewSlot: the position in the root list, with nothing filtered out.
previewSlotByPosition(blocks, block) == FindIndexById(blocks, block.id)

\* relevantBlocks.length - 1 of a root block.
previewSlot(blocks, block) ==
  LET globalIndex == FindIndexById(blocks, block.id)
      relevantBlocks == SelectSeq(SubSeq(blocks, 1, globalIndex + 1), IsNumbered)
  IN Len(relevantBlocks) - 1

\* relevantChildren.length - 1 of the child at cIdx.
childSlot(children, cIdx) ==
  LET relevantChildren == SelectSeq(SubSeq(children, 1, cIdx + 1), IsNumbered)
  IN Len(relevantChildren) - 1

\* What renderPreviewBlock gets for the children of group g rendered at `depth`,
\* recursively: the child's id, its depth, its slot and its label.
RECURSIVE ChildLabels(_, _)
ChildLabels(g, depth) ==
  UNION {{[id |-> g.children[c].id, depth |-> depth + 1,
           slot |-> IF IsNumbered(g.children[c])
                      THEN childSlot(g.children, c - 1) ELSE Undefined,
           label |-> IF IsNumbered(g.children[c])
                       THEN getNumbering(depth + 1, childSlot(g.children, c - 1))
                       ELSE <<>>]}
           \cup (IF g.children[c].type = "group" THEN ChildLabels(g.children[c], depth + 1)
                 ELSE {})
         : c \in 1..Len(g.children)}

\* What renderPreviewBlock gets for every block of every rendered page.
PreviewLabels(blocks) ==
  LET segs == segments(blocks)
  IN UNION {UNION {{[id |-> segs[k + 1][j].id, depth |-> 0,
                     slot |-> IF IsNumbered(segs[k + 1][j])
                                THEN previewSlot(blocks, segs[k + 1][j]) ELSE Undefined,
                     label |-> IF IsNumbered(segs[k + 1][j])
                                 THEN getNumbering(0, previewSlot(blocks, segs[k + 1][j]))
                                 ELSE <<>>]}
                     \cup (IF segs[k + 1][j].type = "group"
                             THEN ChildLabels(segs[k + 1][j], 0) ELSE {})
                   : j \in 1..Len(segs[k + 1])}
            : k \in Pages(blocks)}

\* Mutant of dragIdle: the drop indicator is left where it was.
dragIdleKeepsTarget == /\ isDragging' = FALSE
                       /\ draggedType' = "null"
                       /\ dragTarget' = dragTarget

\* setDragTarget(null); setIsDragging(false); setDraggedType(null)
dragIdle == /\ isDragging' = FALSE
            /\ draggedType' = "null"
            /\ dragTarget' = NoTarget


\* ---- the setData updaters of the Builder's callbacks ----
updateBlock(prev, id, newData) ==
  [prev EXCEPT !.blocks = updateRecursive(prev.blocks, id, newData)]

removeBlock(prev, id) ==
  [prev EXCEPT !.blocks = removeBlockRecursive(prev.blocks, id)]

\* Mutant of duplicateBlock: when the block is not found the copy goes to the end.
duplicateBlockOrAppend(prev, block, gen) ==
  [prev EXCEPT !.blocks =
     IF block.id \in TreeIds(prev.blocks)
       THEN insertAfterRecursive(prev.blocks, block.id, duplicateBlockHelper(block, gen))
       ELSE Append(prev.blocks, duplicateBlockHelper(block, gen))]

duplicateBlock(prev, block, gen) ==
  [prev EXCEPT !.blocks =
     insertAfterRecursive(prev.blocks, block.id, duplicateBlockHelper(block, gen))]

addBlock(prev, type, qType, id) ==
  [prev EXCEPT !.blocks = Append(prev.blocks, createBlock(type, qType, id))]

handleDragDrop(prev, item, targetId, targetParentId, targetIndex, newId) ==
  [prev EXCEPT !.blocks =
     handleDragDropBlocks(prev.blocks, item, targetId, targetParentId, targetIndex, newId)]

\* generateId under the assumption that it never returns an id in use: any of them.
FreshIds(blocks) == pool \ TreeIds(blocks)

\* The results of the generateId calls of one duplicateBlockHelper run: one fresh
\* id per copied block, all different.
FreshGens(blocks, block) ==
  {g \in [TreeIds(<<block>>) -> FreshIds(blocks)] :
     \A a, b \in DOMAIN g : a # b => g[a] # g[b]}

dragUnchanged == UNCHANGED <<isDragging, draggedType, dragTarget, dragData, phase, arg, ret, pool, mode, answer>>

\* ---- click and input handlers (no drag in progress) ----
\* Any onChange / toggle of a wrapper: updateBlock(block.id, parentId, {...block, field}).
UpdateBlock(w, v) ==
  /\ phase = "idle"
  /\ w.block.type # "divider"
  /\ v # w.block.val
  /\ data' = updateBlock(data, w.block.id, [w.block EXCEPT !.val = v])
  /\ last' = Op("updateBlock", w.block, NoItem, NoId, w.parentId, w.index)
  /\ dragUnchanged

\* The hover menu's Delete button.
RemoveBlock(w) ==
  /\ phase = "idle"
  /\ data' = removeBlock(data, w.block.id)
  /\ last' = Op("removeBlock", w.block, NoItem, NoId, w.parentId, w.index)
  /\ dragUnchanged

\* The X button of a page break.
RemovePageBreak(i) ==
  /\ phase = "idle"
  /\ data' = removeBlock(data, data.blocks[i].id)
  /\ last' = Op("removeBlock", data.blocks[i], NoItem, NoId, NoId, i - 1)
  /\ dragUnchanged

\* The hover menu's Duplicate button.
DuplicateBlock(w, gen) ==
  /\ phase = "idle"
  /\ TreeSize(data.blocks) + TreeSize(<<w.block>>) <= MaxBlocks
  /\ data' = duplicateBlock(data, w.block, gen)
  /\ last' = Op("duplicateBlock", w.block, NoItem, NoId, w.parentId, w.index)
  /\ dragUnchanged

\* The Duplicate button on a sample document, recording the copy that
\* duplicateBlockHelper returned.
DuplicateSample(w, gen) ==
  /\ phase = "idle"
  /\ last.op = "init"
  /\ data' = duplicateBlock(data, w.block, gen)
  /\ last' = Op("duplicateBlock", w.block, NoItem, NoId, w.parentId, w.index)
  /\ arg' = w.block
  /\ ret' = duplicateBlockHelper(w.block, gen)
  /\ UNCHANGED <<isDragging, draggedType, dragTarget, dragData, phase, pool, mode, answer>>

\* A click on a palette button.
AddBlock(p, id) ==
  /\ phase = "idle"
  /\ TreeSize(data.blocks) < MaxBlocks
  /\ data' = addBlock(data, p.type, p.qType, id)
  /\ last' = Op("addBlock", NoBlock, [type |-> "new-block", id |-> NoId, payload |-> p],
                NoId, NoId, Undefined)
  /\ dragUnchanged

\* "Clear All", confirmed.
ClearAll ==
  /\ phase = "idle"
  /\ data.blocks # <<>>
  /\ data' = [data EXCEPT !.blocks = <<>>]
  /\ last' = Op("clearAll", NoBlock, NoItem, NoId, NoId, Undefined)
  /\ dragUnchanged

\* ---- drag sources ----
StartDrag(type, item, block) ==
  /\ phase = "idle"
  /\ isDragging' = TRUE
  /\ draggedType' = type
  /\ dragData' = item
  /\ phase' = "dragging"
  /\ last' = Op("dragStart", block, item, NoId, NoId, Undefined)
  /\ UNCHANGED <<data, dragTarget, arg, ret, pool, mode, answer>>

\* EditorBlockWrapper.onBadgeDragStart.
BlockDragStart(w) ==
  StartDrag(w.block.type, [type |-> "block", id |-> w.block.id, payload |-> NoPayload], w.block)

\* The page-break handle's onDragStart.
PageBreakDragStart(i) ==
  StartDrag("divider", [type |-> "block", id |-> data.blocks[i].id, payload |-> NoPayload],
            data.blocks[i])

\* TooltipButton.handleDragStart of a palette button.
PaletteDragStart(p) ==
  /\ FreshIds(data.blocks) # {}
  /\ StartDrag(p.type, [type |-> "new-block", id |-> NoId, payload |-> p], NoBlock)

\* handleDragEnd: the gesture is over, with or without a drop.  It is the
\* onDragEnd of the block handles, the page-break handles and the palette
\* buttons, the sources that set "dragData".
DragEnd ==
  /\ phase \in {"dragging", "dropped"}
  /\ dragData # NoItem
  /\ dragIdle
  /\ dragData' = NoItem
  /\ phase' = "idle"
  /\ last' = Op("handleDragEnd", NoBlock, dragData, NoId, NoId, Undefined)
  /\ UNCHANGED <<data, arg, ret, pool, mode, answer>>

\* ---- drop zones ----
\* handleDragDrop as a handler: the updater, then the three drag-state resets.
HandleDragDrop(targetId, targetParentId, targetIndex) ==
  /\ phase = "dragging"
  /\ dragData # NoItem
  /\ \E newId \in (IF dragData.type = "new-block" THEN FreshIds(data.blocks) ELSE {NoId}) :
       data' = handleDragDrop(data, dragData, targetId, targetParentId, targetIndex, newId)
  /\ dragIdle
  /\ phase' = "dropped"
  /\ last' = Op("handleDragDrop",
                IF dragData.type = "block" THEN findBlock(data.blocks, dragData.id) ELSE NoBlock,
                dragData, targetId, targetParentId, targetIndex)
  /\ UNCHANGED <<dragData, arg, ret, pool, mode, answer>>

\* EditorBlockWrapper.onDrop with the pointer at y over a wrapper of height h.
WrapperDrop(w, y, h) ==
  LET pos == WrapperPos(y, 0, h, w.block.type, w.depth)
  IN IF pos = "inside"
       THEN HandleDragDrop(NoId, w.block.id, Len(w.block.children))
       ELSE HandleDragDrop(NoId, w.parentId, IF pos = "top" THEN w.index ELSE w.index + 1)

\* canDropInGroup of the wrapper rendered at `depth`.
canDropInGroup(depth) ==
  ~(draggedType = "group" /\ depth >= 1) /\ ~(draggedType = "divider")

\* The "Drag questions here" zone of a group: its onDrop.
GroupZoneDrop(w) ==
  /\ w.block.type = "group"
  /\ (Len(w.block.children) = 0 \/ isDragging) /\ w.depth < 1
  /\ IF canDropInGroup(w.depth)
       THEN HandleDragDrop(NoId, w.block.id, Len(w.block.children))
       ELSE /\ phase = "dragging"
            /\ phase' = "dropped"
            /\ last' = Op("rejectedDrop", NoBlock, dragData, NoId, w.block.id,
                          Len(w.block.children))
            /\ UNCHANGED <<data, isDragging, draggedType, dragTarget, dragData, arg, ret, pool, mode, answer>>

\* The "Drop to start new page" zone below the page break at root position i.
StartNewPageDrop(i) ==
  /\ isDragging
  /\ HandleDragDrop(NoId, NoId, FindIndexById(data.blocks, data.blocks[i].id) + 1)

\* The onDrop of a page's block container (segment k), upper or lower half.
ContainerDrop(k, isTop) ==
  LET segs == segments(data.blocks)
      segment == segs[k + 1]
      segmentStartIndex == SegLenSum(segs, k)
  IN IF Len(segment) > 0
       THEN IF isTop
              THEN HandleDragDrop(NoId, NoId, segmentStartIndex)
              ELSE HandleDragDrop(segment[Len(segment)].id, NoId, Undefined)
       ELSE HandleDragDrop(NoId, NoId, segmentStartIndex)

\* The "Drop here to append to page" zone of segment k.
AppendDrop(k) ==
  /\ isDragging
  /\ HandleDragDrop(NoId, NoId, SegLenSum(segments(data.blocks), k + 1))

Next ==
  \/ \E w \in Wrappers(data.blocks) : \E v \in Vals : UpdateBlock(w, v)
  \/ \E w \in Wrappers(data.blocks) : RemoveBlock(w)
  \/ \E i \in PageBreaks(data.blocks) : RemovePageBreak(i)
  \/ \E w \in Wrappers(data.blocks) : \E gen \in FreshGens(data.blocks, w.block) :
       DuplicateBlock(w, gen)
  \/ \E p \in Palette : \E id \in FreshIds(data.blocks) : AddBlock(p, id)
  \/ ClearAll
  \/ \E w \in Wrappers(data.blocks) : BlockDragStart(w)
  \/ \E i \in PageBreaks(data.blocks) : PageBreakDragStart(i)
  \/ \E p \in Palette : PaletteDragStart(p)
  \/ DragEnd
  \/ \E w \in Wrappers(data.blocks) : \E y \in PointerYs : \E h \in Heights : WrapperDrop(w, y, h)
  \/ \E w \in Wrappers(data.blocks) : GroupZoneDrop(w)
  \/ \E i \in PageBreaks(data.blocks) : StartNewPageDrop(i)
  \/ \E k \in Pages(data.blocks) : \E isTop \in BOOLEAN : ContainerDrop(k, isTop)
  \/ \E k \in Pages(data.blocks) : AppendDrop(k)

Spec == Init /\ [][Next]_vars

\* ---- duplication over sample documents ----
Leaf(id, type, val) ==
  [id |-> id, type |-> type, qType |-> IF type = "question" THEN "multiple-choice" ELSE "none",
   val |-> val, children |-> <<>>]
Grp(id, val, children) ==
  [id |-> id, type |-> "group", qType |-> "none", val |-> val, children |-> children]

\* Documents the editor can build, with groups of several children and a group
\* nested in a group.
SampleDocs ==
  {<<Grp(1, 1, <<Leaf(2, "text", 1), Leaf(3, "question", 0)>>)>>,
   <<Leaf(1, "text", 0), Grp(2, 0, <<Grp(3, 1, <<Leaf(4, "question", 1)>>), Leaf(5, "embed", 0)>>)>>,
   <<Grp(4, 0, <<>>), Leaf(2, "embed", 1),
     Grp(1, 0, <<Grp(3, 0, <<Leaf(5, "text", 0), Leaf(6, "text", 1)>>)>>)>>,
   <<Leaf(3, "question", 1), Leaf(1, "divider", 0), Leaf(2, "question", 1)>>}

\* generateId's results for one duplication, out of the ids 1..DupPool not in use.
SampleGens(blocks, block) ==
  {g \in [TreeIds(<<block>>) -> FreshIds(blocks)] :
     \A a, b \in DOMAIN g : a # b => g[a] # g[b]}

InitDup ==
  /\ \E d \in SampleDocs :
       data = [title |-> "Untitled Worksheet",
               description |-> "Fill out the questions below.",
               blocks |-> d,
               design |-> [accentColor |-> "#6366f1", font |-> "sans"]]
  /\ isDragging = FALSE
  /\ draggedType = "null"
  /\ dragTarget = NoTarget
  /\ dragData = NoItem
  /\ phase = "idle"
  /\ last = NoOp
  /\ arg = NoBlock
  /\ ret = NoBlock
  /\ pool = 1..DupPool
  /\ mode = "edit"
  /\ answer = NoAnswer

NextDup ==
  \E w \in Wrappers(data.blocks) : \E gen \in SampleGens(data.blocks, w.block) :
    DuplicateSample(w, gen)

SpecDup == InitDup /\ [][NextDup]_vars


\* ---- one drag gesture, with its dragover events, over sample documents ----
DragPool == 4       \* ids available during the gesture
MaxReads == 2       \* files being read at one time

\* EditorBlockWrapper.onDragOver with the pointer at y over a wrapper of height h;
\* `arg` keeps the event's clientY, the wrapper's rect and the wrapper's props.
WrapperDragOver(w, y, h) ==
  /\ phase = "dragging"
  /\ y <= h
  /\ dragTarget' = [id |-> w.block.id, pos |-> WrapperPos(y, 0, h, w.block.type, w.depth)]
  /\ last' = Op("dragOver", w.block, dragData, NoId, w.parentId, w.index)
  /\ arg' = [y |-> y, top |-> 0, bottom |-> h, type |-> w.block.type, depth |-> w.depth]
  /\ UNCHANGED <<data, isDragging, draggedType, dragData, phase, ret, pool, mode, answer>>

\* The onDragOver of a group's "Drag questions here" zone.
GroupZoneDragOver(w) ==
  /\ phase = "dragging"
  /\ w.block.type = "group"
  /\ (Len(w.block.children) = 0 \/ isDragging) /\ w.depth < 1
  /\ dragTarget' = IF canDropInGroup(w.depth)
                     THEN [id |-> w.block.id, pos |-> "inside"]
                     ELSE dragTarget
  /\ last' = Op("zoneDragOver", w.block, dragData, NoId, w.block.id, Len(w.block.children))
  /\ UNCHANGED <<data, isDragging, draggedType, dragData, phase, arg, ret, pool, mode, answer>>

\* Documents the editor can build with three blocks.
DragDocs ==
  {<<Grp(1, 0, <<Grp(2, 0, <<Leaf(3, "text", 0)>>)>>)>>,
   <<Leaf(1, "question", 0), Leaf(2, "divider", 0), Grp(3, 0, <<>>)>>,
   <<Grp(1, 0, <<Leaf(2, "text", 0)>>), Grp(3, 0, <<>>)>>}

InitDrag ==
  /\ \E d \in DragDocs :
       data = [title |-> "Untitled Worksheet",
               description |-> "Fill out the questions below.",
               blocks |-> d,
               design |-> [accentColor |-> "#6366f1", font |-> "sans"]]
  /\ isDragging = FALSE
  /\ draggedType = "null"
  /\ dragTarget = NoTarget
  /\ dragData = NoItem
  /\ phase = "idle"
  /\ last = NoOp
  /\ arg = NoBlock
  /\ ret = NoBlock
  /\ pool = 1..DragPool
  /\ mode = "edit"
  /\ answer = NoAnswer

NextDrag ==
  \/ last.op = "init" /\ \E w \in Wrappers(data.blocks) : BlockDragStart(w)
  \/ last.op = "init" /\ \E i \in PageBreaks(data.blocks) : PageBreakDragStart(i)
  \/ last.op = "init" /\ \E p \in Palette : PaletteDragStart(p)
  \/ \E w \in Wrappers(data.blocks) : \E y \in PointerYs : \E h \in Heights :
       WrapperDragOver(w, y, h)
  \/ \E w \in Wrappers(data.blocks) : GroupZoneDragOver(w)
  \/ \E i \in PageBreaks(data.blocks) : StartNewPageDrop(i)
  \/ \E k \in Pages(data.blocks) : AppendDrop(k)
  \/ \E k \in Pages(data.blocks) : \E isTop \in BOOLEAN : ContainerDrop(k, isTop)
  \/ \E w \in Wrappers(data.blocks) : GroupZoneDrop(w)
  \/ \E w \in Wrappers(data.blocks) : \E y \in PointerYs : \E h \in Heights : WrapperDrop(w, y, h)
  \/ DragEnd

SpecDrag == InitDrag /\ [][NextDrag]_vars

\* The browser ends every drag with a dragend event on its source.
SpecDragFair == SpecDrag /\ WF_vars(DragEnd)


\* ---- a gesture that may also drag an option or sentence row ----
\* handleItemDragStart of a row of a question: the row's index is kept in the
\* wrapper, no "dragData" is set, the Builder's drag state is not touched.
ItemDragStart(w) ==
  /\ phase = "idle"
  /\ w.block.type = "question"
  /\ phase' = "dragging"
  /\ last' = Op("itemDragStart", w.block, NoItem, NoId, w.parentId, w.index)
  /\ UNCHANGED <<data, isDragging, draggedType, dragTarget, dragData, arg, ret, pool, mode, answer>>

\* handleItemDrop on a row of a question: with a row of this wrapper dragged
\* and dropped on another row (moved) the rows are reordered through
\* updateBlock; otherwise it returns at once.
ItemDrop(w, moved) ==
  /\ phase = "dragging"
  /\ dragData = NoItem
  /\ w.block.type = "question"
  /\ data' = IF moved THEN updateBlock(data, w.block.id, [w.block EXCEPT !.val = 1]) ELSE data
  /\ phase' = "dropped"
  /\ last' = Op("handleItemDrop", w.block, NoItem, NoId, w.parentId, w.index)
  /\ UNCHANGED <<isDragging, draggedType, dragTarget, dragData, arg, ret, pool, mode, answer>>

\* EditorBlockWrapper.onDrop when the drag carries no "dragData":
\* setDragTarget(null), then handleDragDrop returns at `if (!dataStr) return`.
WrapperDropNoData(w) ==
  /\ phase = "dragging"
  /\ dragData = NoItem
  /\ dragTarget' = NoTarget
  /\ phase' = "dropped"
  /\ last' = Op("dropNoData", w.block, NoItem, NoId, w.parentId, w.index)
  /\ UNCHANGED <<data, isDragging, draggedType, dragData, arg, ret, pool, mode, answer>>

\* The dragend of a row: the rows have no onDragEnd and no element between a
\* row and the document root has one, so no handler runs.  Also the end of a
\* row drag released on a zone whose onDrop stops at `if (!dataStr) return`.
ItemDragEnd ==
  /\ phase \in {"dragging", "dropped"}
  /\ dragData = NoItem
  /\ phase' = "idle"
  /\ last' = Op("itemDragEnd", NoBlock, NoItem, NoId, NoId, Undefined)
  /\ UNCHANGED <<data, isDragging, draggedType, dragTarget, dragData, arg, ret, pool, mode, answer>>

NextRows ==
  \/ NextDrag
  \/ last.op = "init" /\ \E w \in Wrappers(data.blocks) : ItemDragStart(w)
  \/ \E w \in Wrappers(data.blocks) : \E moved \in BOOLEAN : ItemDrop(w, moved)
  \/ \E w \in Wrappers(data.blocks) : WrapperDropNoData(w)
  \/ ItemDragEnd

SpecRows == InitDrag /\ [][NextRows]_vars


\* ---- the callbacks called for a block that is gone ----
\* Ids of no block of the tree.
StaleIds(blocks) == (1..DupPool) \ TreeIds(blocks)

\* Blocks a stale caller may hold under the id: a text, a group, and a group
\* with a child whose id may still be in the tree.
StaleBlocks(blocks, id) ==
  {Leaf(id, "text", v) : v \in Vals}
    \cup {Grp(id, 0, <<>>)}
    \cup {Grp(id, 1, <<Leaf(c, "text", 0)>>) : c \in {1, DupPool} \ {id}}

\* updateBlock(id, parentId, newData) for an id of no block.
UpdateStale(newData) ==
  /\ phase = "idle"
  /\ data' = updateBlock(data, newData.id, newData)
  /\ last' = Op("updateBlock", newData, NoItem, NoId, NoId, Undefined)
  /\ arg' = newData
  /\ ret' = NoBlock
  /\ UNCHANGED <<isDragging, draggedType, dragTarget, dragData, phase, pool, mode, answer>>

\* removeBlock(id, parentId) for an id of no block.
RemoveStale(block) ==
  /\ phase = "idle"
  /\ data' = removeBlock(data, block.id)
  /\ last' = Op("removeBlock", block, NoItem, NoId, NoId, Undefined)
  /\ arg' = block
  /\ ret' = NoBlock
  /\ UNCHANGED <<isDragging, draggedType, dragTarget, dragData, phase, pool, mode, answer>>

\* duplicateBlock(block, parentId) for a block whose id is the id of no block.
DuplicateStale(block, gen) ==
  /\ phase = "idle"
  /\ data' = duplicateBlock(data, block, gen)
  /\ last' = Op("duplicateBlock", block, NoItem, NoId, NoId, Undefined)
  /\ arg' = block
  /\ ret' = duplicateBlockHelper(block, gen)
  /\ UNCHANGED <<isDragging, draggedType, dragTarget, dragData, phase, pool, mode, answer>>

InitStale ==
  /\ \E d \in SampleDocs \cup DragDocs :
       data = [title |-> "Untitled Worksheet",
               description |-> "Fill out the questions below.",
               blocks |-> d,
               design |-> [accentColor |-> "#6366f1", font |-> "sans"]]
  /\ isDragging = FALSE
  /\ draggedType = "null"
  /\ dragTarget = NoTarget
  /\ dragData = NoItem
  /\ phase = "idle"
  /\ last = NoOp
  /\ arg = NoBlock
  /\ ret = NoBlock
  /\ pool = 1..DupPool
  /\ mode = "edit"
  /\ answer = NoAnswer

NextStale ==
  \/ \E id \in StaleIds(data.blocks) : \E b \in StaleBlocks(data.blocks, id) : UpdateStale(b)
  \/ \E id \in StaleIds(data.blocks) : \E b \in StaleBlocks(data.blocks, id) : RemoveStale(b)
  \/ \E id \in StaleIds(data.blocks) : \E b \in StaleBlocks(data.blocks, id) :
       \E gen \in SampleGens(data.blocks, b) : DuplicateStale(b, gen)

SpecStale == InitStale /\ [][NextStale]_vars


\* ---- worksheets as JavaScript values ----
\* The member names of a worksheet and of its blocks, as code units.
Key ==
  [title |-> <<116, 105, 116, 108, 101>>,
   description |-> <<100, 101, 115, 99, 114, 105, 112, 116, 105, 111, 110>>,
   blocks |-> <<98, 108, 111, 99, 107, 115>>,
   design |-> <<100, 101, 115, 105, 103, 110>>,
   accentColor |-> <<97, 99, 99, 101, 110, 116, 67, 111, 108, 111, 114>>,
   font |-> <<102, 111, 110, 116>>,
   id |-> <<105, 100>>,
   type |-> <<116, 121, 112, 101>>,
   content |-> <<99, 111, 110, 116, 101, 110, 116>>,
   qType |-> <<113, 84, 121, 112, 101>>,
   prompt |-> <<112, 114, 111, 109, 112, 116>>,
   listItems |-> <<108, 105, 115, 116, 73, 116, 101, 109, 115>>,
   options |-> <<111, 112, 116, 105, 111, 110, 115>>,
   children |-> <<99, 104, 105, 108, 100, 114, 101, 110>>]

\* The string values used: block types, the question type, the default design,
\* title ("Untitled Worksheet") and description ("Fill out the questions below.").
Word ==
  [text |-> <<116, 101, 120, 116>>,
   group |-> <<103, 114, 111, 117, 112>>,
   question |-> <<113, 117, 101, 115, 116, 105, 111, 110>>,
   divider |-> <<100, 105, 118, 105, 100, 101, 114>>,
   multipleChoice |-> <<109, 117, 108, 116, 105, 112, 108, 101, 45, 99, 104, 111, 105, 99, 101>>,
   sans |-> <<115, 97, 110, 115>>,
   accent |-> <<35, 54, 51, 54, 54, 102, 49>>,
   untitled |-> <<85, 110, 116, 105, 116, 108, 101, 100, 32, 87, 111, 114, 107, 115, 104, 101, 101, 116>>,
   fillOut |-> <<70, 105, 108, 108, 32, 111, 117, 116, 32, 116, 104, 101, 32, 113, 117, 101, 115, 116, 105, 111, 110, 115, 32, 98, 101, 108, 111, 119, 46>>]

\* Blocks as createBlock builds them, with the given id and text; a question
\* carries the member `listItems: undefined` createBlock gives it.
TextJS(id, content) ==
  JObj(<<Member(Key.id, JStr(id)), Member(Key.type, JStr(Word.text)), Member(Key.content, JStr(content))>>)
DividerJS(id) == JObj(<<Member(Key.id, JStr(id)), Member(Key.type, JStr(Word.divider))>>)
QuestionJS(id, prompt) ==
  JObj(<<Member(Key.id, JStr(id)), Member(Key.type, JStr(Word.question)),
         Member(Key.qType, JStr(Word.multipleChoice)), Member(Key.prompt, JStr(prompt)),
         Member(Key.listItems, JUndefined),
         Member(Key.options, JArr(<<JStr(<<65>>), JStr(<<66, 34>>)>>))>>)
GroupJS(id, title, children) ==
  JObj(<<Member(Key.id, JStr(id)), Member(Key.type, JStr(Word.group)), Member(Key.title, JStr(title)),
         Member(Key.children, JArr(children))>>)

\* A WorksheetData value.
DocJS(title, description, blocks) ==
  JObj(<<Member(Key.title, JStr(title)), Member(Key.description, JStr(description)),
         Member(Key.blocks, JArr(blocks)),
         Member(Key.design, JObj(<<Member(Key.accentColor, JStr(Word.accent)),
                                Member(Key.font, JStr(Word.sans))>>))>>)

\* Builder's useState value of data.
DefaultDocJS == DocJS(Word.untitled, Word.fillOut, <<>>)

\* Titles tried: empty, "A", 'A"', a backslash, an e-acute (Latin-1), a line feed
\* before "A", and a euro sign (outside Latin-1).
CodecTitles == {<<>>, <<65>>, <<65, 34>>, <<92>>, <<233>>, <<10, 65>>, <<8364>>}

\* Block lists tried.
CodecBlockLists ==
  {<<>>,
   <<TextJS(<<49>>, <<35, 10, 92, 110>>)>>,
   <<QuestionJS(<<49>>, <<81, 63>>), DividerJS(<<50>>), TextJS(<<51>>, <<>>)>>,
   <<GroupJS(<<97>>, <<71>>, <<QuestionJS(<<98>>, <<233>>), GroupJS(<<99>>, <<>>, <<>>)>>)>>}

CodecDocs == {DocJS(t, <<>>, b) : t \in CodecTitles, b \in CodecBlockLists}

\* JSON values that are no worksheet: they have no `blocks` member.
NoBlocksValues ==
  {JObj(<<>>), JNum(5), JNum(0), JNull, JArr(<<>>), JStr(<<120>>), JBool(TRUE),
   JObj(<<Member(Key.title, JStr(<<65>>))>>)}

\* JSON values with a `blocks` member that is no list.
OddBlocksValues ==
  {JObj(<<Member(Key.blocks, JNum(7))>>), JObj(<<Member(Key.blocks, JNull)>>),
   JObj(<<Member(Key.blocks, JStr(<<>>))>>)}

\* Texts that are not JSON: empty, "{", "A", '{"blocks":', '[1,]', '{"a" 1}', '"A'.
BadJsonTexts ==
  {<<>>, <<123>>, <<65>>, <<123, 34, 98, 108, 111, 99, 107, 115, 34, 58>>,
   <<91, 49, 44, 93>>, <<123, 34, 97, 34, 32, 49, 125>>, <<34, 65>>}

\* Payloads that are not base64: "garbage-not-base64", a single digit, a digit
\* after padding, five digits.
BadBase64 ==
  {<<32, 26, 43, 27, 26, 32, 30, DashChar, 39, 40, 45, DashChar, 27, 26, 44, 30, 58, 56>>,
   <<26>>, <<26, 26, PadChar, 26>>, <<26, 26, 26, 26, 26>>}

\* Payloads atob accepts whose text JSON.parse rejects, the empty payload included.
BadJsonPayloads == {EncodeGroups(t) : t \in BadJsonTexts}

GarbagePayloads == BadBase64 \cup BadJsonPayloads

Payloads ==
  GarbagePayloads
    \cup {encodeState(v) : v \in NoBlocksValues \cup OddBlocksValues}
    \cup {encodeState(d) : d \in CodecDocs}

\* Location hashes: none, one that is no data link, and "#data=" before a payload.
Hashes == {<<>>, <<HashChar, 26>>} \cup {DataPrefix \o p : p \in Payloads}

\* The contents of uploaded files: what "Download" writes for a document
\* (JSON.stringify(data)), other JSON, and texts that are not JSON.
FileTexts ==
  {JSONstringify(v) : v \in CodecDocs \cup NoBlocksValues \cup OddBlocksValues}
    \cup BadJsonTexts

\* ---- the pages' load effects, the codec and the file upload ----
HelperOp(op) == Op(op, NoBlock, NoItem, NoId, NoId, Undefined)

\* encodeState applied to a worksheet (the Publish link).
EncodeState(x) ==
  /\ last.op = "init"
  /\ arg' = x
  /\ ret' = encodeState(x)
  /\ last' = HelperOp("encodeState")
  /\ UNCHANGED <<data, isDragging, draggedType, dragTarget, dragData, phase, pool, mode, answer>>

\* decodeState applied to a location hash.
DecodeState(hash) ==
  /\ last.op = "init"
  /\ arg' = hash
  /\ ret' = decodeState(hash)
  /\ last' = HelperOp("decodeState")
  /\ UNCHANGED <<data, isDragging, draggedType, dragTarget, dragData, phase, pool, mode, answer>>

\* decodeState applied to what encodeState returned for x, as it is or after "#data=".
RoundTrip(x, withPrefix) ==
  /\ last.op = "init"
  /\ arg' = x
  /\ ret' = decodeState((IF withPrefix THEN DataPrefix ELSE <<>>) \o encodeState(x))
  /\ last' = HelperOp(IF withPrefix THEN "roundTripLink" ELSE "roundTrip")
  /\ UNCHANGED <<data, isDragging, draggedType, dragTarget, dragData, phase, pool, mode, answer>>

\* Builder's mount effect with the location hash `hash`.
BuilderLoad(hash) ==
  /\ last.op = "init"
  /\ LET decoded == decodeState(hash)
     IN IF startsWith(hash, DataPrefix) /\ Truthy(decoded)
          THEN data' = decoded /\ mode' = "preview"
          ELSE UNCHANGED <<data, mode>>
  /\ arg' = hash
  /\ last' = HelperOp("builderLoad")
  /\ UNCHANGED <<isDragging, draggedType, dragTarget, dragData, phase, pool, ret, answer>>

\* The Answer page's mount effect with the location hash `hash`.
AnswerLoad(hash) ==
  /\ last.op \in {"init", "publish"}
  /\ LET decoded == decodeState(hash)
     IN answer' = IF ~startsWith(hash, DataPrefix) THEN answer
                  ELSE IF Truthy(decoded) THEN [answer EXCEPT !.data = decoded]
                  ELSE IF Len(hash) > 6 THEN [answer EXCEPT !.error = "Invalid worksheet link."]
                  ELSE answer
  /\ arg' = hash
  /\ last' = HelperOp("answerLoad")
  /\ UNCHANGED <<data, isDragging, draggedType, dragTarget, dragData, phase, pool, ret, mode>>

\* The Builder page is on screen and no helper call is being looked at.
BuilderPage == last.op \in {"init", "builderLoad", "editTitle", "publish"}

\* The title input's onChange: setData({ ...data, title: e.target.value }).
EditTitle(title) ==
  /\ BuilderPage
  /\ mode = "edit"
  /\ data.k = "obj"
  /\ data' = JObj(PutMember(data.a, Key.title, JStr(title)))
  /\ arg' = title
  /\ last' = HelperOp("editTitle")
  /\ UNCHANGED <<isDragging, draggedType, dragTarget, dragData, phase, pool, ret, mode, answer>>

\* Builder's render computes publishLink from data; `ret` is the link's fragment.
Publish ==
  /\ BuilderPage
  /\ arg' = data
  /\ ret' = DataPrefix \o encodeState(data)
  /\ last' = HelperOp("publish")
  /\ UNCHANGED <<data, isDragging, draggedType, dragTarget, dragData, phase, pool, mode, answer>>

\* Mutant of handleFileUpload: the parsed value is installed without a look at `blocks`.
handleFileUploadNoValidation(a, text) ==
  LET json == JSONparse(text)
  IN IF json.k = "thrown" THEN [a EXCEPT !.error = "Failed to parse file."]
     ELSE [a EXCEPT !.data = json, !.error = "null"]

\* The reader.onload callback of Answer.handleFileUpload: the Answer state it
\* leaves.  Reading `blocks` of null throws inside the try.
handleFileUpload(a, text) ==
  LET json == JSONparse(text)
      blocks == IF json.k = "thrown" THEN Thrown ELSE GetMember(json, Key.blocks)
  IN IF blocks.k = "thrown" THEN [a EXCEPT !.error = "Failed to parse file."]
     ELSE IF Truthy(blocks) THEN [a EXCEPT !.data = json, !.error = "null"]
     ELSE [a EXCEPT !.error = "Invalid worksheet file format."]

\* The value is an object whose `blocks` member is a list, which the page can render.
HasBlocksList(v) == v.k = "obj" /\ GetMember(v, Key.blocks).k = "arr"

\* The Answer page has run its mount effect and no helper call is being looked at.
AnswerPage == last.op \in {"answerLoad", "chooseFile", "fileUpload", "setAnswers"}

\* The Answer page renders the worksheet, not the upload screen: `if (!data)` fails.
ShowsWorksheet(a) == Truthy(a.data)

\* Answer.handleFileUpload: a file with the contents `text` is chosen in the file
\* input of the upload screen, and a FileReader starts reading it.
ChooseFile(text) ==
  /\ AnswerPage
  /\ ~ShowsWorksheet(answer)
  /\ Cardinality(answer.reading) < MaxReads
  /\ text \notin answer.reading
  /\ answer' = [answer EXCEPT !.reading = @ \cup {text}]
  /\ arg' = text
  /\ last' = HelperOp("chooseFile")
  /\ UNCHANGED <<data, isDragging, draggedType, dragTarget, dragData, phase, pool, ret, mode>>

\* A FileReader has read its file: reader.onload runs.
FileUpload(text) ==
  /\ AnswerPage
  /\ text \in answer.reading
  /\ answer' = handleFileUpload([answer EXCEPT !.reading = @ \ {text}], text)
  /\ arg' = text
  /\ last' = HelperOp("fileUpload")
  /\ UNCHANGED <<data, isDragging, draggedType, dragTarget, dragData, phase, pool, ret, mode>>

\* The ids of the question blocks of a list of blocks, at every depth.
RECURSIVE QuestionIdsJS(_)
QuestionIdsJS(blocks) ==
  IF blocks.k # "arr" THEN {}
  ELSE UNION {IF GetMember(blocks.a[i], Key.type) = JStr(Word.question)
                THEN {GetMember(blocks.a[i], Key.id).s}
              ELSE IF GetMember(blocks.a[i], Key.type) = JStr(Word.group)
                THEN QuestionIdsJS(GetMember(blocks.a[i], Key.children))
              ELSE {}
              : i \in 1..Len(blocks.a)}

\* setAnswers(prev => ({...prev, [q.id]: v}))
setAnswers(prev, id, v) == {e \in prev : e.id # id} \cup {[id |-> id, v |-> v]}

\* A player's onChange on the Answer page: question `id` is answered with v.
SetAnswers(id, v) ==
  /\ AnswerPage
  /\ ShowsWorksheet(answer)
  /\ HasBlocksList(answer.data)
  /\ id \in QuestionIdsJS(GetMember(answer.data, Key.blocks))
  /\ answer' = [answer EXCEPT !.answers = setAnswers(@, id, v)]
  /\ arg' = id
  /\ last' = HelperOp("setAnswers")
  /\ UNCHANGED <<data, isDragging, draggedType, dragTarget, dragData, phase, pool, ret, mode>>

InitLoad ==
  /\ data = DefaultDocJS
  /\ isDragging = FALSE
  /\ draggedType = "null"
  /\ dragTarget = NoTarget
  /\ dragData = NoItem
  /\ phase = "idle"
  /\ last = NoOp
  /\ arg = NoBlock
  /\ ret = NoBlock
  /\ pool = {}
  /\ mode = "edit"
  /\ answer = NoAnswer

NextLoad ==
  \/ \E x \in CodecDocs : EncodeState(x)
  \/ \E hash \in Hashes \cup Payloads : DecodeState(hash)
  \/ \E x \in CodecDocs : \E withPrefix \in BOOLEAN : RoundTrip(x, withPrefix)
  \/ \E hash \in Hashes : BuilderLoad(hash)
  \/ \E hash \in Hashes : last.op = "init" /\ AnswerLoad(hash)
  \/ \E title \in CodecTitles : EditTitle(title)
  \/ Publish
  \/ last.op = "publish" /\ AnswerLoad(ret)
  \/ \E text \in FileTexts : ChooseFile(text)
  \/ \E text \in FileTexts : FileUpload(text)
  \/ \E id \in QuestionIdsJS(GetMember(answer.data, Key.blocks)) : \E v \in Vals :
       SetAnswers(id, v)

SpecLoad == InitLoad /\ [][NextLoad]_vars


\* ---- getNumbering on its own ----
MaxDepth == 3       \* depths tried: 0..MaxDepth
MaxIndex == 49      \* slots tried: 0..MaxIndex

\* Both pages' getNumbering called with the same depth and slot.
GetNumbering(depth, index) ==
  /\ arg' = [depth |-> depth, index |-> index]
  /\ ret' = [builder |-> getNumbering(depth, index), answer |-> getNumberingAnswer(depth, index)]
  /\ last' = HelperOp("getNumbering")
  /\ UNCHANGED <<data, isDragging, draggedType, dragTarget, dragData, phase, pool, mode, answer>>

NextNumbering == \E depth \in 0..MaxDepth : \E index \in 0..MaxIndex : GetNumbering(depth, index)

SpecNumbering == Init /\ [][NextNumbering]_vars


\* ---- DragInlinePlayer ----
\* listItems is held as its bracketed words: listItems[l][g] is the word of
\* gap g of line l, the odd-indexed parts of line.split(/\[(.*?)\]/g).  The
\* gaps' keys `${lineIdx}-${gapIdx}` are pairs <<l, g>>.  A value of `counts`
\* is a number, or one of two values that are no number:
TextValue == -2     \* a string, what `+ 1` makes of a value that is no number
NaNValue == -1      \* NaN, what `--` makes of a value that is no number

\* Names every object inherits from Object.prototype (those tried).
ObjectProtoKeys == {"constructor"}

\* counts[w] of the plain object `counts`: the own property if there is one,
\* else what is inherited (a function, which `+ 1` and `--` treat as TextValue),
\* else undefined (0 under `|| 0`).
countOf(counts, w) ==
  IF w \in DOMAIN counts THEN counts[w]
  ELSE IF w \in ObjectProtoKeys THEN TextValue
  ELSE 0

\* block.listItems?.forEach(line => ... allWords.push(p))
RECURSIVE allWords(_)
allWords(listItems) ==
  IF listItems = <<>> THEN <<>> ELSE Head(listItems) \o allWords(Tail(listItems))

\* allWords.forEach(w => { counts[w] = (counts[w] || 0) + 1; })
RECURSIVE tally(_, _)
tally(words, counts) ==
  IF words = <<>> THEN counts
  ELSE LET w == Head(words)
           cur == countOf(counts, w)
           new == IF cur = TextValue THEN TextValue
                  ELSE IF cur = NaNValue THEN 1
                  ELSE cur + 1
       IN tally(Tail(words), [x \in DOMAIN counts \cup {w} |-> IF x = w THEN new ELSE counts[x]])

\* Object.values(currentAnswers).forEach(ans => { if (... && counts[ans]) counts[ans]--; })
RECURSIVE decrementUsed(_, _)
decrementUsed(entries, counts) ==
  IF entries = {} THEN counts
  ELSE LET e == CHOOSE x \in entries : TRUE
           cur == countOf(counts, e.word)
           truthy == cur # 0 /\ cur # NaNValue
           new == IF cur = TextValue THEN NaNValue ELSE cur - 1
       IN decrementUsed(entries \ {e},
            IF truthy
              THEN [x \in DOMAIN counts \cup {e.word} |-> IF x = e.word THEN new ELSE counts[x]]
              ELSE counts)

\* availableWords: the bank, as the number of copies it holds of each word.
availableWords(listItems, currentAnswers) ==
  LET counts == decrementUsed(currentAnswers, tally(allWords(listItems), <<>>))
  IN [w \in DOMAIN counts |-> IF counts[w] > 0 THEN counts[w] ELSE 0]

\* The gaps rendered.
GapKeys(listItems) ==
  UNION {{<<l, g>> : g \in 1..Len(listItems[l])} : l \in 1..Len(listItems)}

\* The player's props: block.listItems is `arg`, value is answers[block.id]
\* of the page (block id 1); currentAnswers = value || {}, a set of
\* [key, word] entries.
currentAnswers ==
  IF \E e \in answer.answers : e.id = 1
    THEN (CHOOSE e \in answer.answers : e.id = 1).v
    ELSE {}

\* A gap's onDrop with a word dragged from the bank.
GapDrop(key, word) ==
  /\ word \in DOMAIN availableWords(arg, currentAnswers)
  /\ availableWords(arg, currentAnswers)[word] > 0
  /\ answer' = [answer EXCEPT !.answers =
                  setAnswers(@, 1, {e \in currentAnswers : e.key # key}
                                     \cup {[key |-> key, word |-> word]})]
  /\ last' = HelperOp("gapDrop")
  /\ UNCHANGED <<data, isDragging, draggedType, dragTarget, dragData, phase, arg, ret, pool, mode>>

\* A gap's onClick: the gap's key is deleted.
GapClick(key) ==
  /\ answer' = [answer EXCEPT !.answers =
                  setAnswers(@, 1, {e \in currentAnswers : e.key # key})]
  /\ last' = HelperOp("gapClick")
  /\ UNCHANGED <<data, isDragging, draggedType, dragTarget, dragData, phase, arg, ret, pool, mode>>

\* Sentences with a word bracketed twice, with several gaps on a line, and
\* with the word "constructor".
PlayerItems ==
  {<< <<"cat", "dog">>, <<"cat", "sun">> >>,
   << <<"sun">>, <<"sun">>, <<"dog">> >>,
   << <<"constructor", "cat">> >>}

InitPlayer ==
  /\ \E items \in PlayerItems : arg = items
  /\ data = DefaultDocJS
  /\ isDragging = FALSE
  /\ draggedType = "null"
  /\ dragTarget = NoTarget
  /\ dragData = NoItem
  /\ phase = "idle"
  /\ last = NoOp
  /\ ret = NoBlock
  /\ pool = {}
  /\ mode = "preview"
  /\ answer = NoAnswer

NextPlayer ==
  \/ \E key \in GapKeys(arg) : \E word \in DOMAIN availableWords(arg, currentAnswers) :
       GapDrop(key, word)
  \/ \E key \in GapKeys(arg) : GapClick(key)

SpecPlayer == InitPlayer /\ [][NextPlayer]_vars


(***************************************************************************)
(* Vocabulary of the properties.                                           *)
(***************************************************************************)
\* The positions of a block list: a path is the sequence of 1-based indices
\* leading from the root list to a block.
RECURSIVE Paths(_)
Paths(blocks) ==
  UNION {{<<i>>} \cup {<<i>> \o q : q \in Paths(blocks[i].children)} : i \in 1..Len(blocks)}

RECURSIVE BlockAt(_, _)
BlockAt(blocks, p) ==
  IF Len(p) = 1 THEN blocks[p[1]] ELSE BlockAt(blocks[p[1]].children, Tail(p))

IsPrefix(p, q) == Len(p) <= Len(q) /\ SubSeq(q, 1, Len(p)) = p

\* A block without its children: its id and fields.
Shallow(b) == [id |-> b.id, type |-> b.type, qType |-> b.qType, val |-> b.val]

\* The non-id fields of a block.
Fields(b) == [type |-> b.type, qType |-> b.qType, val |-> b.val]

IdList(blocks) == [i \in 1..Len(blocks) |-> blocks[i].id]

\* The ids of the children of the block pid, in order (of the root list for NoId).
Kids(blocks, pid) ==
  IF pid = NoId THEN IdList(blocks)
  ELSE IF \E p \in Paths(blocks) : BlockAt(blocks, p).id = pid
    THEN IdList(BlockAt(blocks, CHOOSE p \in Paths(blocks) : BlockAt(blocks, p).id = pid).children)
    ELSE <<>>

\* The id of the parent of block id (NoId at the root), and the depth of the block.
ParentOf(blocks, id) ==
  LET p == CHOOSE q \in Paths(blocks) : BlockAt(blocks, q).id = id
  IN IF Len(p) = 1 THEN NoId ELSE BlockAt(blocks, SubSeq(p, 1, Len(p) - 1)).id

Without(seq, x) == SelectSeq(seq, LAMBDA e : e # x)

SameMeta(d1, d2) ==
  d1.title = d2.title /\ d1.description = d2.description /\ d1.design = d2.design

\* C1: updateBlock(id, v) on a block present anywhere in the tree puts v at that
\* block's position; every block outside the replaced one keeps its id, fields,
\* parent and index, and title, description and design are unchanged.
C1_UpdateReplacesInPlace ==
  [][last'.op = "updateBlock" =>
       \E p \in Paths(data.blocks) :
         /\ BlockAt(data.blocks, p) = last'.block
         /\ p \in Paths(data'.blocks)
         /\ BlockAt(data'.blocks, p).id = last'.block.id
         /\ BlockAt(data'.blocks, p).val # last'.block.val
         /\ BlockAt(data'.blocks, p) = [last'.block EXCEPT !.val = BlockAt(data'.blocks, p).val]
         /\ {q \in Paths(data'.blocks) : ~IsPrefix(p, q)}
              = {q \in Paths(data.blocks) : ~IsPrefix(p, q)}
         /\ \A q \in Paths(data.blocks) :
              ~IsPrefix(q, p) /\ ~IsPrefix(p, q) =>
                BlockAt(data'.blocks, q) = BlockAt(data.blocks, q)
         /\ \A q \in Paths(data.blocks) :
              IsPrefix(q, p) /\ q # p =>
                Shallow(BlockAt(data'.blocks, q)) = Shallow(BlockAt(data.blocks, q))
         /\ SameMeta(data', data)]_vars

\* A block nested in a group was updated while the document holds other blocks.
C1_Witness ==
  /\ last.op = "updateBlock"
  /\ last.parentId # NoId
  /\ TreeSize(data.blocks) = MaxBlocks
  /\ findBlock(data.blocks, last.block.id).val # last.block.val

\* C2: removeBlock on a group with N descendants removes exactly N+1 blocks;
\* findBlock finds neither the group nor any former descendant afterwards, and
\* every other block keeps its parent and its order among its siblings.
C2_RemoveGroupCascades ==
  [][last'.op = "removeBlock" /\ last'.block.type = "group" =>
       LET gone == TreeIds(<<last'.block>>)
       IN /\ TreeSize(data'.blocks) = TreeSize(data.blocks) - (TreeSize(last'.block.children) + 1)
          /\ \A i \in gone : findBlock(data'.blocks, i) = NoBlock
          /\ TreeIds(data'.blocks) = TreeIds(data.blocks) \ gone
          /\ \A pid \in {NoId} \cup (TreeIds(data.blocks) \ gone) :
               Kids(data'.blocks, pid) = Without(Kids(data.blocks, pid), last'.block.id)
          /\ \A i \in TreeIds(data'.blocks) :
               Shallow(findBlock(data'.blocks, i)) = Shallow(findBlock(data.blocks, i))]_vars

\* A group with children was removed from inside another group, other blocks remaining.
C2_Witness ==
  /\ last.op = "removeBlock"
  /\ last.block.type = "group"
  /\ Len(last.block.children) >= 1
  /\ last.parentId # NoId
  /\ data.blocks # <<>>


\* Same tree shape, child order and non-id fields.
RECURSIVE SameButIds(_, _)
SameButIds(a, b) ==
  /\ Fields(a) = Fields(b)
  /\ Len(a.children) = Len(b.children)
  /\ \A i \in 1..Len(a.children) : SameButIds(a.children[i], b.children[i])

\* C3: duplicateBlockHelper returns a copy whose id differs from the original's,
\* whose descendants at every depth carry ids that occur nowhere in the original
\* subtree, and whose shape, child order and non-id fields are the original's;
\* for a block that is no group only the id differs.
C3_DuplicateHelperReIds ==
  last.op = "duplicateBlock" =>
    /\ ret.id # arg.id
    /\ TreeIds(<<ret>>) \cap TreeIds(<<arg>>) = {}
    /\ SameButIds(arg, ret)
    /\ (arg.type # "group" => ret = [arg EXCEPT !.id = ret.id])

\* A group holding a group with a child was duplicated.
C3_Witness ==
  /\ last.op = "duplicateBlock"
  /\ arg.type = "group"
  /\ \E i \in 1..Len(arg.children) : Len(arg.children[i].children) >= 1
  /\ ret # NoBlock

\* C4: duplicateBlock on a block at index i of a list (the root list or the
\* children of a group at any depth) inserts exactly one copy, at index i+1 of
\* that list; no other list changes and every block that was there keeps its
\* parent and its order among its siblings.
C4_DuplicateInsertsAfter ==
  [][last'.op = "duplicateBlock" =>
       LET pid == last'.parentId
           i == last'.index
           old == Kids(data.blocks, pid)
           new == Kids(data'.blocks, pid)
       IN /\ old[i + 1] = last'.block.id
          /\ Len(new) = Len(old) + 1
          /\ new[i + 2] \notin TreeIds(data.blocks)
          /\ Without(new, new[i + 2]) = old
          /\ SubSeq(new, 1, i + 1) = SubSeq(old, 1, i + 1)
          /\ \A q \in ({NoId} \cup TreeIds(data.blocks)) \ {pid} :
               Kids(data'.blocks, q) = Kids(data.blocks, q)
          /\ TreeSize(data'.blocks) = TreeSize(data.blocks) + TreeSize(<<last'.block>>)
          /\ \A x \in TreeIds(data.blocks) :
               Shallow(findBlock(data'.blocks, x)) = Shallow(findBlock(data.blocks, x))]_vars

\* A block two levels below the root was duplicated, and it was not the last of its list.
C4_Witness ==
  /\ last.op = "duplicateBlock"
  /\ last.parentId # NoId
  /\ ParentOf(data.blocks, last.parentId) # NoId
  /\ last.index + 2 < Len(Kids(data.blocks, last.parentId))


\* The last handler was handleDragDrop moving a block that is in the document.
MovedExisting(l) == l.op = "handleDragDrop" /\ l.item.type = "block" /\ l.block # NoBlock

\* The last handler was handleDragDrop with a page break as the dragged block.
DraggedDivider(l) ==
  /\ l.op = "handleDragDrop"
  /\ \/ l.item.type = "block" /\ l.block.type = "divider"
     \/ l.item.type = "new-block" /\ l.item.payload.type = "divider"

\* C5: with generateId never returning an id in use, all block ids of the tree
\* (root and all group children) are pairwise distinct in every document built
\* from the empty one.
C5_IdsUnique == Cardinality(TreeIds(data.blocks)) = TreeSize(data.blocks)

\* A full document with a nested block, just after a block was moved.
C5_Witness ==
  /\ MovedExisting(last)
  /\ TreeSize(data.blocks) = MaxBlocks
  /\ \E p \in Paths(data.blocks) : Len(p) >= 2

\* C6: every drop of an existing block leaves exactly the same set of block ids
\* in the tree, the moved block and its descendants present once, whatever zone
\* received it.
C6_MoveKeepsEveryBlock ==
  [][MovedExisting(last') =>
       /\ TreeIds(data'.blocks) = TreeIds(data.blocks)
       /\ TreeSize(data'.blocks) = TreeSize(data.blocks)]_vars

InsertAt(seq, i, x) == SubSeq(seq, 1, i) \o <<x>> \o SubSeq(seq, i + 1, Len(seq))

\* 0-based index of x in a sequence that holds it.
IndexIn(seq, x) == (CHOOSE k \in 1..Len(seq) : seq[k] = x) - 1

\* The last handler moved a block with an explicit index into the list it is in.
MovedWithinList(l, blocks) ==
  /\ MovedExisting(l)
  /\ l.targetId = NoId
  /\ l.index # Undefined
  /\ ParentOf(blocks, l.block.id) = l.parentId

\* C7: a move within one list from index i to a nominal index j > i inserts at
\* j-1 after the removal: the block ends up right before the block that was at
\* index j (last if j is the length of the list).
C7_LaterIndexDecremented ==
  [][MovedWithinList(last', data.blocks) =>
       LET old == Kids(data.blocks, last'.parentId)
           i == IndexIn(old, last'.block.id)
           j == last'.index
       IN i < j /\ j <= Len(old) =>
            Kids(data'.blocks, last'.parentId)
              = InsertAt(Without(old, last'.block.id), j - 1, last'.block.id)]_vars

\* C8: dropping a block on its own wrapper (top zone: nominal index = own index,
\* bottom zone: own index + 1) or dropping a page's last block on the lower half
\* of the page container (target = the block itself) leaves the tree unchanged.
C8_SelfDropIsNoOp ==
  [][MovedExisting(last') =>
       LET id == last'.block.id
           i == IndexIn(Kids(data.blocks, ParentOf(data.blocks, id)), id)
       IN (\/ /\ MovedWithinList(last', data.blocks)
              /\ last'.index \in {i, i + 1}
           \/ /\ last'.targetId = id
              /\ last'.parentId = NoId
              /\ last'.index = Undefined)
          => data'.blocks = data.blocks]_vars

\* C9: no group's children list, at any depth, holds a divider.
C9_NoDividerInGroup ==
  \A p \in Paths(data.blocks) : Len(p) >= 2 => BlockAt(data.blocks, p).type # "divider"

\* A page break from the palette was dropped on a block inside a group, in a
\* document that holds that group and its child.
C9_Witness ==
  /\ last.op = "handleDragDrop"
  /\ last.item.type = "new-block"
  /\ last.item.payload.type = "divider"
  /\ last.parentId # NoId
  /\ Len(Kids(data.blocks, last.parentId)) >= 1

\* C10: handleDragDrop with a divider as the dragged block and a defined
\* targetParentId returns the previous document: nothing added, removed or
\* reordered.
C10_DividerIntoGroupRejected ==
  [][DraggedDivider(last') /\ last'.parentId # NoId => data' = data]_vars

\* A page break of the document was dropped with a group as the target parent;
\* it is still in the root list.
C10_Witness ==
  /\ DraggedDivider(last)
  /\ last.item.type = "block"
  /\ last.parentId # NoId
  /\ findBlock(data.blocks, last.parentId).type = "group"
  /\ \E k \in 1..Len(data.blocks) : data.blocks[k] = last.block

\* The nesting depth of the block at path p: 0 in the root list, 1 for a child of
\* a root group, 2 for a child of a group that is itself inside a group.
DepthOf(p) == Len(p) - 1

\* C11: the tree has at most two levels: every block is in the root list or a
\* direct child of a root-level group, so no group inside a group has children.
C11_AtMostTwoLevels ==
  \A p \in Paths(data.blocks) : DepthOf(p) <= 1

\* The last handler was handleDragDrop with a group as the dragged block.
DraggedGroup(l) ==
  /\ l.op = "handleDragDrop"
  /\ \/ l.item.type = "block" /\ l.block.type = "group"
     \/ l.item.type = "new-block" /\ l.item.payload.type = "group"

\* C12: a drop of a group (moved or from the palette) whose destination list is
\* the children of a group that is itself inside a group leaves the document
\* unchanged, whichever zone received it.
C12_GroupBelowDepthOneRejected ==
  [][(/\ DraggedGroup(last')
      /\ last'.parentId \in TreeIds(data.blocks)
      /\ ParentOf(data.blocks, last'.parentId) # NoId)
       => data' = data]_vars

\* ---- the codec and the load effects ----

\* The value with every member whose value is undefined left out: what a reader
\* of the value's members can tell apart.
RECURSIVE Defined(_)
Defined(v) ==
  CASE v.k = "obj" ->
         LET kept == SelectSeq(v.a, LAMBDA m : m.v.k # "undefined")
         IN JObj([i \in 1..Len(kept) |-> Member(kept[i].key, Defined(kept[i].v))])
    [] v.k = "arr" -> JArr([i \in 1..Len(v.a) |-> Defined(v.a[i])])
    [] OTHER -> v

\* Every string and key of the value is made of code units of at most 255.
RECURSIVE Latin1(_)
Latin1(v) ==
  CASE v.k = "str" -> \A i \in 1..Len(v.s) : v.s[i] <= 255
    [] v.k = "arr" -> \A i \in 1..Len(v.a) : Latin1(v.a[i])
    [] v.k = "obj" -> \A i \in 1..Len(v.a) :
                        /\ \A j \in 1..Len(v.a[i].key) : v.a[i].key[j] <= 255
                        /\ Latin1(v.a[i].v)
    [] OTHER -> TRUE

HasBlocks(v) == v.k = "obj" /\ \E i \in 1..Len(v.a) : v.a[i].key = Key.blocks

\* C14: decodeState returns null for a payload that is base64 of JSON without a
\* `blocks` member, so neither load effect installs a document without blocks.
C14_NoBlocksIsFailure ==
  /\ last.op = "decodeState" => (ret = JNull \/ HasBlocks(ret))
  /\ last.op = "builderLoad" => HasBlocks(data)
  /\ last.op = "answerLoad" => (answer.data = JNull \/ HasBlocks(answer.data))

\* The hash's payload is not base64, or the text it decodes to is not JSON.
Undecodable(hash) ==
  LET payload == RemoveFirst(hash, DataPrefix)
  IN \/ payload \in GarbagePayloads
     \/ ~atob(payload).ok
     \/ JSONparse(atob(payload).s).k = "thrown"

\* C15: decodeState never throws, and returns null for a payload that is not
\* base64 or whose text is not JSON, the empty payload included; the pages'
\* documents are as they were.
C15_GarbageIsNull ==
  /\ last.op = "decodeState" =>
       /\ ret.k # "thrown"
       /\ Undecodable(arg) => ret = JNull
       /\ data = DefaultDocJS /\ mode = "edit" /\ answer = NoAnswer
  /\ (last.op = "builderLoad" /\ Undecodable(arg)) => (data = DefaultDocJS /\ mode = "edit")
  /\ (last.op = "answerLoad" /\ Undecodable(arg)) => answer.data = JNull

\* decodeState was given "#data=garbage-not-base64" and returned null.
C15_Witness ==
  /\ last.op = "decodeState"
  /\ startsWith(arg, DataPrefix)
  /\ RemoveFirst(arg, DataPrefix) \in BadBase64
  /\ Len(arg) = 24
  /\ ret = JNull

\* decodeState was given the empty payload "#data=" and returned null.
C15_WitnessEmpty == last.op = "decodeState" /\ arg = DataPrefix /\ ret = JNull


\* The messages the Answer page shows.
ParseMessage == "Failed to parse file."
FormatMessage == "Invalid worksheet file format."
LinkMessage == "Invalid worksheet link."

C20_WitnessParse ==
  /\ last.op = "fileUpload"
  /\ arg = <<123>>
  /\ HasBlocks(answer.data)
  /\ answer.error = ParseMessage


\* ---- callbacks for an id that is not in the tree ----
\* The step is a call of updateBlock, removeBlock or duplicateBlock for an id
\* that no block of the tree has.
StaleCall ==
  /\ last'.op \in {"updateBlock", "removeBlock", "duplicateBlock"}
  /\ last'.block.id \notin TreeIds(data.blocks)

\* C16: updateBlock, removeBlock and duplicateBlock called with an id found
\* nowhere in the tree leave the document as it was: title, description, design
\* and the block tree with its ids, fields and order.
C16_AbsentIdIsNoOp == [][StaleCall => data' = data]_vars

\* duplicateBlock was called with a stale group that has a child, on a document
\* with nested groups; the copy was made and the document is what it was.
C16_Witness ==
  /\ last.op = "duplicateBlock"
  /\ last.block.id \notin TreeIds(data.blocks)
  /\ last.block.type = "group" /\ Len(last.block.children) = 1
  /\ ret.id \notin TreeIds(data.blocks)
  /\ data.blocks \in SampleDocs /\ TreeSize(data.blocks) = 6

\* removeBlock was called with a stale id.
C16_WitnessRemove ==
  /\ last.op = "removeBlock"
  /\ last.block.id \notin TreeIds(data.blocks)
  /\ data.blocks \in DragDocs

\* updateBlock was called with a stale id.
C16_WitnessUpdate ==
  /\ last.op = "updateBlock"
  /\ last.block.id \notin TreeIds(data.blocks)
  /\ data.blocks \in DragDocs


\* ---- the end of a drag gesture ----
\* No drag is in progress: the three drag states have their initial values.
Idle == ~isDragging /\ draggedType = "null" /\ dragTarget = NoTarget

\* C17: for block and palette drags, handleDragEnd leaves the document as it was
\* and the drag state idle; after every handled drop the drag state is idle; so
\* every gesture that was dragging comes to idle.
C17_GestureEndsIdle ==
  /\ [][last'.op = "handleDragEnd" => (data' = data /\ Idle')]_vars
  /\ [](last.op = "handleDragDrop" => Idle)
  /\ (isDragging ~> Idle)

\* A block was dragged over a wrapper and released outside every zone: the
\* document is the sample it was and the drag state is idle.
C17_Witness ==
  /\ last.op = "handleDragEnd"
  /\ last.item.type = "block"
  /\ data.blocks \in DragDocs
  /\ Idle

\* A palette drag ended in a handled drop that added a block.
C17_WitnessDrop ==
  /\ last.op = "handleDragDrop"
  /\ last.item.type = "new-block"
  /\ TreeSize(data.blocks) = 4
  /\ Idle


\* ---- pagination ----
\* The segments one after the other.
RECURSIVE Flatten(_)
Flatten(segs) == IF segs = <<>> THEN <<>> ELSE Head(segs) \o Flatten(Tail(segs))

\* C18: for a root list with d dividers, segments yields 2d+1 segments: at the
\* odd places the divider-free runs (possibly empty), at the even places one
\* divider each, and the segments one after the other are the root list.
C18_SegmentsAlternate ==
  LET segs == segments(data.blocks)
      d == Cardinality(PageBreaks(data.blocks))
  IN /\ Len(segs) = 2 * d + 1
     /\ \A k \in 1..Len(segs) :
          IF k % 2 = 1
            THEN \A j \in 1..Len(segs[k]) : segs[k][j].type # "divider"
            ELSE Len(segs[k]) = 1 /\ segs[k][1].type = "divider"
     /\ Flatten(segs) = data.blocks

\* A root list divider, block, divider: the first and the last run are empty.
C18_Witness ==
  /\ Len(data.blocks) = 3
  /\ data.blocks[1].type = "divider"
  /\ data.blocks[2].type # "divider"
  /\ data.blocks[3].type = "divider"
  /\ segments(data.blocks) =
       << <<>>, <<data.blocks[1]>>, <<data.blocks[2]>>, <<data.blocks[3]>>, <<>> >>

\* The root list of one divider yields [], [Divider], [].
C18_WitnessOneDivider ==
  /\ Len(data.blocks) = 1
  /\ data.blocks[1].type = "divider"
  /\ segments(data.blocks) = << <<>>, <<data.blocks[1]>>, <<>> >>


\* ---- numbering ----
\* The sibling list of the block at path p.
Siblings(blocks, p) ==
  IF Len(p) = 1 THEN blocks ELSE BlockAt(blocks, SubSeq(p, 1, Len(p) - 1)).children

\* How many question or group blocks the sibling list has up to and including
\* the block at path p.
NumberedUpTo(blocks, p) ==
  Cardinality({j \in 1..p[Len(p)] : IsNumbered(Siblings(blocks, p)[j])})

\* C19: in the preview and answer renderings the k-th question or group of a
\* sibling list gets numbering slot k-1 (at the top level the label "k."),
\* whatever other blocks stand between and across page breaks; text, embed and
\* divider blocks get no label.
C19_NumberingSkipsOthers ==
  \A p \in Paths(data.blocks) :
    LET b == BlockAt(data.blocks, p)
        k == NumberedUpTo(data.blocks, p)
        rendered == {r \in PreviewLabels(data.blocks) : r.id = b.id}
    IN IF IsNumbered(b)
         THEN /\ rendered # {}
              /\ \A r \in rendered :
                   /\ r.depth = DepthOf(p)
                   /\ r.slot = k - 1
                   /\ Len(p) = 1 => r.label = Digits(k) \o <<46>>
         ELSE \A r \in rendered : r.label = <<>> /\ r.slot = Undefined

\* A question, a page break and a question: the second question is "2.".
C19_Witness ==
  /\ Len(data.blocks) = 3
  /\ data.blocks[1].type = "question"
  /\ data.blocks[2].type = "divider"
  /\ data.blocks[3].type = "question"
  /\ [id |-> data.blocks[3].id, depth |-> 0, slot |-> 1, label |-> <<50, 46>>]
       \in PreviewLabels(data.blocks)

\* A text, a question and a group: the question is "1.", the group "2.".
C19_WitnessInterleaved ==
  /\ Len(data.blocks) = 3
  /\ data.blocks[1].type = "text"
  /\ data.blocks[2].type = "question"
  /\ data.blocks[3].type = "group"
  /\ [id |-> data.blocks[2].id, depth |-> 0, slot |-> 0, label |-> <<49, 46>>]
       \in PreviewLabels(data.blocks)
  /\ [id |-> data.blocks[3].id, depth |-> 0, slot |-> 1, label |-> <<50, 46>>]
       \in PreviewLabels(data.blocks)


\* ---- links that fail to decode, the Answer page's document, the publish link ----
\* The hash is "#data=" before a non-empty payload that is not base64 or whose
\* text is not JSON.
FailedLink(hash) == startsWith(hash, DataPrefix) /\ Len(hash) > Len(DataPrefix) /\ Undecodable(hash)

\* Builder's state is the one a load without a fragment leaves.  Builder renders
\* from its state alone, so a message on its screen needs a state that differs.
BuilderCleanLoad == data = DefaultDocJS /\ mode = "edit" /\ Idle

\* C21: loaded with "#data=" before a non-empty payload that fails to decode,
\* the Builder and the Answer page each record an error message for the user
\* and go on with their default or empty document.
C21_FailedLinkIsReported ==
  /\ (last.op = "answerLoad" /\ FailedLink(arg)) =>
       (answer.error # "null" /\ answer.data = JNull)
  /\ (last.op = "builderLoad" /\ FailedLink(arg)) =>
       (data = DefaultDocJS /\ ~BuilderCleanLoad)

\* C22: on the Answer page, once a document is loaded, no step changes it:
\* answering changes the answers only and no second document is loaded over it.
C22_LoadedDocumentIsFixed ==
  [][(AnswerPage /\ ShowsWorksheet(answer)) => answer'.data = answer.data]_vars

\* C23: encodeState returns "" when the serialization fails; the Builder's
\* document is untouched, the publish link's fragment is then "#data=", and the
\* Answer page opened with it has no document and shows no worksheet.
C23_EncodeFailureIsEmpty ==
  /\ [][last'.op = "publish" => (data' = data /\ arg' = data)]_vars
  /\ [](last.op = "publish" =>
          /\ startsWith(ret, DataPrefix)
          /\ ~Latin1(arg) => ret = DataPrefix)
  /\ []((last.op = "answerLoad" /\ arg = DataPrefix) =>
          (answer = NoAnswer /\ ~ShowsWorksheet(answer)))
  /\ [](last.op = "encodeState" => (~Latin1(arg) => ret = <<>>))

\* A title with a euro sign was typed, the link was made and opened: the Answer
\* page got "#data=" and has no document.
C23_Witness ==
  /\ last.op = "answerLoad"
  /\ arg = DataPrefix
  /\ GetMember(data, Key.title) = JStr(<<8364>>)
  /\ ret = DataPrefix
  /\ answer = NoAnswer


\* ---- the position under the pointer ----
\* The state follows a dragover event on a block wrapper.
PointerSeen == last.op = "dragOver"

\* The pointer is less than 20px from the wrapper's top edge / bottom edge.
NearTop == arg.y - arg.top < 20
NearBottom == arg.bottom - arg.y < 20

\* C24: the position is `top` exactly when the pointer is within 20px of the
\* top edge, and `bottom` only when it is within 20px of the bottom edge; a
\* pointer in neither band gets neither.
C24_BandsDecidePosition ==
  PointerSeen =>
    /\ (dragTarget.pos = "top") <=> NearTop
    /\ (dragTarget.pos = "bottom") => NearBottom

\* C25: `inside` is reported only for a group at depth < 1 with the pointer less
\* than 80px below the top edge and in neither 20px band, and dragTarget has
\* pos = `inside` only for a group of the root list.
C25_InsideOnlyForRootGroup ==
  /\ (PointerSeen /\ dragTarget.pos = "inside") =>
       /\ arg.type = "group"
       /\ arg.depth < 1
       /\ arg.y - arg.top < 80
       /\ ~NearTop /\ ~NearBottom
  /\ dragTarget.pos = "inside" =>
       \E i \in 1..Len(data.blocks) :
         data.blocks[i].id = dragTarget.id /\ data.blocks[i].type = "group"

\* The pointer is 50px below the top of a root group 120px high: inside.
C25_Witness ==
  /\ PointerSeen
  /\ arg.type = "group" /\ arg.depth = 0 /\ arg.y = 50 /\ arg.bottom = 120
  /\ dragTarget = [id |-> last.block.id, pos |-> "inside"]

\* The pointer is 50px below the top of a group at depth 1: not inside.
C25_WitnessNested ==
  /\ PointerSeen
  /\ arg.type = "group" /\ arg.depth = 1 /\ arg.y = 50 /\ arg.bottom = 120
  /\ dragTarget.pos = "bottom"

\* ---- labels ----
\* The decimal numeral of n < 100.
Arabic(n) == IF n < 10 THEN <<48 + n>> ELSE <<48 + (n \div 10), 48 + (n % 10)>>

\* The lowercase Roman numeral of n <= 50, from its tens and its units.
RomanTens == << <<>>, <<120>>, <<120, 120>>, <<120, 120, 120>>, <<120, 108>>, <<108>> >>
RomanUnits ==
  << <<>>, <<105>>, <<105, 105>>, <<105, 105, 105>>, <<105, 118>>, <<118>>, <<118, 105>>,
     <<118, 105, 105>>, <<118, 105, 105, 105>>, <<105, 120>> >>
RomanOf(n) == RomanTens[(n \div 10) + 1] \o RomanUnits[(n % 10) + 1]

\* C26: getNumbering gives index+1 in Arabic numerals and a period at depth 0,
\* the letter with code 97+index and a period at depth 1 (index 0..25), the
\* lowercase Roman numeral of index+1 and a period at depth >= 2; Builder's and
\* Answer's getNumbering agree.
C26_NumberingFormats ==
  (last.op = "getNumbering" /\ arg.index + 1 <= 50) =>
    /\ ret.builder = ret.answer
    /\ arg.depth = 0 => ret.builder = Arabic(arg.index + 1) \o <<46>>
    /\ (arg.depth = 1 /\ arg.index <= 25) => ret.builder = <<97 + arg.index, 46>>
    /\ arg.depth >= 2 => ret.builder = RomanOf(arg.index + 1) \o <<46>>

\* Slot 8 at depth 2 is "ix.".
C26_Witness ==
  /\ last.op = "getNumbering"
  /\ arg = [depth |-> 2, index |-> 8]
  /\ ret.builder = <<105, 120, 46>>

\* Slot 11 at depth 0 is "12.".
C26_WitnessArabic ==
  /\ last.op = "getNumbering"
  /\ arg = [depth |-> 0, index |-> 11]
  /\ ret.answer = <<49, 50, 46>>

\* ---- palette drops ----
\* `new` is `old` with one more block, of the given type and with an id of its
\* own, at 1-based position `at` of the children of pid (of the root list for
\* NoId); every block of `old` has the parent it had and the lists keep their order.
InsertedNew(old, new, pid, at, type) ==
  \E n \in TreeIds(new) \ TreeIds(old) :
    /\ TreeIds(new) = TreeIds(old) \cup {n}
    /\ TreeSize(new) = TreeSize(old) + 1
    /\ findBlock(new, n).type = type
    /\ at <= Len(Kids(new, pid)) /\ Kids(new, pid)[at] = n
    /\ \A id \in TreeIds(old) : ParentOf(new, id) = ParentOf(old, id)
    /\ \A p \in TreeIds(old) \cup {NoId} : Without(Kids(new, p), n) = Kids(old, p)

\* C27: a palette item dropped on the wrapper at index i of a list creates one
\* block of the requested type, at index i of that list for the top zone, at
\* i+1 for the bottom zone, as the last child of a root group for `inside`;
\* the blocks already there keep id, parent and order; a rejected drop (a page
\* break aimed at a group's children) leaves the document as it was.
C27_PaletteDropInserts ==
  [][\A w \in Wrappers(data.blocks) : \A y \in PointerYs : \A h \in Heights :
       LET pos == WrapperPos(y, 0, h, w.block.type, w.depth)
           pid == IF pos = "inside" THEN w.block.id ELSE w.parentId
           at == IF pos = "inside" THEN Len(w.block.children) + 1
                 ELSE IF pos = "top" THEN w.index + 1 ELSE w.index + 2
       IN (/\ last'.op = "handleDragDrop"
           /\ last'.item.type = "new-block"
           /\ last'.targetId = NoId /\ last'.parentId = pid /\ last'.index = at - 1)
          => /\ SameMeta(data, data')
             /\ \/ data' = data
                \/ InsertedNew(data.blocks, data'.blocks, pid, at, last'.item.payload.type)
             /\ (pos = "inside") => w.depth = 0 /\ w.block.type = "group"
             /\ (last'.item.payload.type # "divider" \/ pid = NoId) => data' # data]_vars

\* A text block from the palette was dropped inside the root group 1, which
\* held block 2: it is the group's last child.
C27_Witness ==
  /\ last.op = "handleDragDrop"
  /\ last.item.type = "new-block" /\ last.item.payload.type = "text"
  /\ last.parentId = 1 /\ last.index = 1
  /\ Len(data.blocks) = 2
  /\ IdList(data.blocks[1].children) = <<2, 4>>
  /\ data.blocks[1].children[2].type = "text"

\* A page break from the palette was dropped on a wrapper inside a group: no
\* block was added.
C27_WitnessRejected ==
  /\ last.op = "handleDragDrop"
  /\ last.item.type = "new-block" /\ last.item.payload.type = "divider"
  /\ last.parentId # NoId
  /\ TreeSize(data.blocks) = 3

\* ---- page zones ----
\* The id of the block the handleDragDrop step put in place: the dragged block,
\* or the block created for a palette item.
DroppedId ==
  IF last'.item.type = "block" THEN last'.item.id
  ELSE IF TreeIds(data'.blocks) \ TreeIds(data.blocks) # {}
    THEN CHOOSE n \in TreeIds(data'.blocks) \ TreeIds(data.blocks) : TRUE
    ELSE NoId

\* handleDragDrop ran with the arguments a root-level zone passes: no target,
\* no parent, the given index.
RootZoneDrop(index) ==
  /\ last'.op = "handleDragDrop"
  /\ last'.targetId = NoId /\ last'.parentId = NoId /\ last'.index = index

\* Block m is in the root list `new`, immediately before block d.
RightBefore(new, m, d) ==
  \E q \in 1..(Len(new) - 1) : new[q].id = m /\ new[q + 1].id = d

\* C28: a block dropped on the "Drop here to append to page" zone of a page
\* ends up immediately before the page break that ends that page (last in the
\* root list for the last page); a block dropped on the "Drop to start new
\* page" zone of a page break ends up immediately after that page break.
C28_PageZoneDropsLand ==
  [][/\ \A k \in Pages(data.blocks) :
          LET segs == segments(data.blocks)
              new == data'.blocks
          IN (RootZoneDrop(SegLenSum(segs, k + 1)) /\ isDragging) =>
               IF k + 2 <= Len(segs)
                 THEN DroppedId # segs[k + 2][1].id
                        => RightBefore(new, DroppedId, segs[k + 2][1].id)
                 ELSE Len(new) > 0 /\ new[Len(new)].id = DroppedId
     /\ \A i \in PageBreaks(data.blocks) :
          (RootZoneDrop(i) /\ isDragging /\ DroppedId # data.blocks[i].id) =>
            RightBefore(data'.blocks, data.blocks[i].id, DroppedId)]_vars

\* ---- the drag state ----
\* C29: isDragging is true exactly when draggedType is not null, and when no
\* drag gesture is in progress dragTarget is null, whatever was dragged: a
\* block, a palette button, a page break, an option or sentence row.
C29_DragStateConsistent ==
  /\ isDragging <=> draggedType # "null"
  /\ phase = "idle" => dragTarget = NoTarget

\* ---- the word bank ----
\* How often word w is bracketed in listItems, and how many gaps hold it.
Occurrences(w) == Cardinality({k \in GapKeys(arg) : arg[k[1]][k[2]] = w})
FilledWith(w) == Cardinality({e \in currentAnswers : e.word = w})
\* The copies of w in the bank.
InBank(w) ==
  LET bank == availableWords(arg, currentAnswers)
  IN IF w \in DOMAIN bank THEN bank[w] ELSE 0
BracketedWords == {arg[k[1]][k[2]] : k \in GapKeys(arg)}

\* C30: for every bracketed word the copies in the bank and the gaps filled
\* with it add up to its bracketed occurrences; the bank never holds more
\* copies than occurrences and is empty exactly when every occurrence is placed.
C30_BankBalances ==
  /\ \A w \in BracketedWords :
       /\ InBank(w) + FilledWith(w) = Occurrences(w)
       /\ InBank(w) <= Occurrences(w)
  /\ (\A w \in BracketedWords : InBank(w) = 0)
       <=> (\A w \in BracketedWords : FilledWith(w) = Occurrences(w))

====
